---- MODULE Spec2Model ----
(***************************************************************************)
(* DenkraumNavigator: the search query builder, the backup lifecycle and   *)
(* the path-parameterized routes of app.py as a state machine.             *)
(*                                                                         *)
(* Python strings are sequences of one-character strings, so that          *)
(* substring, prefix, suffix, split, strip and LIKE matching are computed  *)
(* and not assumed.  Python values are tagged records [t, v].              *)
(***************************************************************************)
EXTENDS Integers, Sequences, FiniteSets, TLC

VARIABLES db, backups, clock, made, thumbs, last, conns, copying, md_files

vars == <<db, backups, clock, made, thumbs, last, conns, copying, md_files>>

\* request contexts that can be live at the same time
Workers == {1, 2}

\* no request in progress, no connection open
NoConnections ==
    [open |-> {}, opened |-> 0, begun |-> 0,
     g |-> [w \in Workers |->
              [pc |-> "idle", database |-> 0, opened |-> 0, calls |-> 0,
               outcome |-> "none"]]]

\* no restore copy in flight
NotCopying == [active |-> FALSE]

\* the files of the working directory and below it, with their content
ProjectDir ==
    (<<"a",".","m","d">> :> <<"o">>) @@ (<<"c",".","m","d">> :> <<"o">>) @@
    (<<"n",".","t","x","t">> :> <<"o">>) @@ (<<".","h",".","m","d">> :> <<"o">>) @@
    (<<"d","/","b",".","m","d">> :> <<"o">>) @@
    (<<".",".","/","e",".","m","d">> :> <<"o">>)

\* seconds the clock can advance
MaxClock == 1

(***************************************************************************)
(* Python values                                                           *)
(***************************************************************************)
None == [t |-> "none", v |-> <<>>]

Str(s) == [t |-> "str", v |-> s]

List(l) == [t |-> "list", v |-> l]

Num(n) == [t |-> "int", v |-> <<n>>]

\* bool(x): None, "", [] and 0 are falsy
Truthy(x) ==
    CASE x.t = "none" -> FALSE
      [] x.t = "int"  -> x.v[1] # 0
      [] OTHER        -> x.v # <<>>

(***************************************************************************)
(* String primitives                                                       *)
(***************************************************************************)
SeqToSet(s) == {s[i] : i \in 1..Len(s)}

\* s.startswith(p)
StartsWith(s, p) == Len(p) <= Len(s) /\ SubSeq(s, 1, Len(p)) = p

\* s.endswith(p)
EndsWith(s, p) == Len(p) <= Len(s) /\ SubSeq(s, Len(s) - Len(p) + 1, Len(s)) = p

\* sub in s
Contains(s, sub) ==
    \E i \in 1..(Len(s) - Len(sub) + 1) : SubSeq(s, i, i + Len(sub) - 1) = sub

Whitespace == {" ", "\t", "\n"}

RECURSIVE LStrip(_)
LStrip(s) == IF s # <<>> /\ Head(s) \in Whitespace THEN LStrip(Tail(s)) ELSE s

RECURSIVE RStrip(_)
RStrip(s) ==
    IF s # <<>> /\ s[Len(s)] \in Whitespace THEN RStrip(SubSeq(s, 1, Len(s) - 1)) ELSE s

\* s.strip()
Strip(s) == RStrip(LStrip(s))

\* s.split(sep): the pieces between the separators, empty pieces kept
RECURSIVE SplitAcc(_, _, _)
SplitAcc(s, sep, cur) ==
    IF s = <<>> THEN <<cur>>
    ELSE IF Head(s) = sep THEN <<cur>> \o SplitAcc(Tail(s), sep, <<>>)
    ELSE SplitAcc(Tail(s), sep, Append(cur, Head(s)))

Split(s, sep) == SplitAcc(s, sep, <<>>)

UpperCase == <<"A","B","C","D","E","F","G","H","I","J","K","L","M",
               "N","O","P","Q","R","S","T","U","V","W","X","Y","Z">>

LowerCase == <<"a","b","c","d","e","f","g","h","i","j","k","l","m",
               "n","o","p","q","r","s","t","u","v","w","x","y","z">>

\* ASCII case folding, as SQLite's LIKE applies it
Fold(c) ==
    IF \E i \in 1..Len(UpperCase) : UpperCase[i] = c
    THEN LowerCase[CHOOSE i \in 1..Len(UpperCase) : UpperCase[i] = c]
    ELSE c

Digits == <<"0","1","2","3","4","5","6","7","8","9">>

IsDigit(c) == \E i \in 1..Len(Digits) : Digits[i] = c

DigitVal(c) == (CHOOSE i \in 1..Len(Digits) : Digits[i] = c) - 1


\* int(s) of a str: surrounding whitespace stripped, an optional sign, then
\* digits (single underscores between digits allowed); anything else is a
\* ValueError (ok = FALSE)
RECURSIVE DigitsValue(_, _)
DigitsValue(s, acc) ==
    IF s = <<>> THEN acc
    ELSE IF Head(s) = "_" THEN DigitsValue(Tail(s), acc)
    ELSE DigitsValue(Tail(s), 10 * acc + DigitVal(Head(s)))

WellFormedDigits(s) ==
    /\ s # <<>>
    /\ \A i \in 1..Len(s) : IsDigit(s[i]) \/ s[i] = "_"
    /\ IsDigit(s[1]) /\ IsDigit(s[Len(s)])
    /\ \A i \in 1..(Len(s) - 1) : ~(s[i] = "_" /\ s[i + 1] = "_")

ParseInt(s) ==
    LET t == Strip(s)
        signed == t # <<>> /\ Head(t) \in {"+", "-"}
        body == IF signed THEN Tail(t) ELSE t
        mag == DigitsValue(body, 0)
    IN  IF WellFormedDigits(body)
        THEN [ok |-> TRUE, n |-> IF signed /\ Head(t) = "-" THEN 0 - mag ELSE mag]
        ELSE [ok |-> FALSE, n |-> 0]

\* int(y) for an element of the years argument
IntOf(y) == IF y.t = "int" THEN [ok |-> TRUE, n |-> y.v[1]] ELSE ParseInt(y.v)

(***************************************************************************)
(* SQLite's LIKE: '%' matches any run of characters, '_' matches exactly   *)
(* one character, every other character matches itself up to ASCII case.   *)
(* No ESCAPE clause is given in the query text.                            *)
(***************************************************************************)
RECURSIVE Like(_, _)
Like(text, pat) ==
    IF pat = <<>> THEN text = <<>>
    ELSE IF Head(pat) = "%"
         THEN Like(text, Tail(pat)) \/ (text # <<>> /\ Like(Tail(text), pat))
    ELSE IF text = <<>> THEN FALSE
    ELSE IF Head(pat) = "_" THEN Like(Tail(text), Tail(pat))
    ELSE Fold(Head(pat)) = Fold(Head(text)) /\ Like(Tail(text), Tail(pat))

\* column LIKE ? with a column that may be NULL: NULL LIKE x is not true
ColLike(col, pat) == col.t = "str" /\ Like(col.v, pat)

\* f"%{s}%"
Wrap(s) == <<"%">> \o s \o <<"%">>

(***************************************************************************)
(* search_database: the WHERE clauses and their bound parameters           *)
(***************************************************************************)
\* "for y in years": a list yields its elements, a str its characters
YearItems(years) ==
    IF years.t = "str"
    THEN [i \in 1..Len(years.v) |-> Str(<<years.v[i]>>)]
    ELSE years.v

YearIntsSkipInvalid(years) ==
    LET kept == SelectSeq(YearItems(years), LAMBDA y : Truthy(y) /\ IntOf(y).ok)
    IN  [ok |-> TRUE, ints |-> [i \in 1..Len(kept) |-> IntOf(kept[i]).n]]

\* year_ints = [int(y) for y in years if y]; ok = FALSE on ValueError
YearInts(years) ==
    LET kept == SelectSeq(YearItems(years), Truthy)
    IN  [ok |-> \A i \in 1..Len(kept) : IntOf(kept[i]).ok,
         ints |-> [i \in 1..Len(kept) |-> IntOf(kept[i]).n]]

FilenameClause(filename) ==
    IF Truthy(filename)
    THEN <<[col |-> "filename", params |-> <<Wrap(filename.v)>>]>>
    ELSE <<>>

YearClause(years) ==
    IF Truthy(years) /\ YearInts(years).ok /\ YearInts(years).ints # <<>>
    THEN <<[col |-> "category_year", params |-> YearInts(years).ints]>>
    ELSE <<>>

\* a str is wrapped into a one-element list
TypeList(file_types) ==
    IF file_types.t = "str" THEN <<file_types.v>>
    ELSE [i \in 1..Len(file_types.v) |-> file_types.v[i].v]

TypeClause(file_types) ==
    IF Truthy(file_types)
    THEN <<[col |-> "category_type", params |-> TypeList(file_types)]>>
    ELSE <<>>

NonEmpty(s) == s # <<>>

\* keyword_list = [kw.strip() for kw in keywords.split(',') if kw.strip()]
KeywordList(keywords) ==
    LET pieces == Split(keywords.v, ",")
        stripped == [i \in 1..Len(pieces) |-> Strip(pieces[i])]
    IN  SelectSeq(stripped, NonEmpty)

\* three parameters per keyword: keywords LIKE ? OR summary LIKE ? OR filename LIKE ?
RECURSIVE KeywordParams(_)
KeywordParams(kws) ==
    IF kws = <<>> THEN <<>>
    ELSE <<Wrap(Head(kws)), Wrap(Head(kws)), Wrap(Head(kws))>> \o KeywordParams(Tail(kws))

KeywordClause(keywords) ==
    IF Truthy(keywords) /\ KeywordList(keywords) # <<>>
    THEN <<[col |-> "keywords", params |-> KeywordParams(KeywordList(keywords))]>>
    ELSE <<>>

Conditions(filename, years, file_types, keywords) ==
    FilenameClause(filename) \o YearClause(years)
        \o TypeClause(file_types) \o KeywordClause(keywords)

\* one WHERE clause evaluated on one row of the files table
RowSatisfies(row, clause) ==
    CASE clause.col = "filename" ->
            ColLike(row.filename, clause.params[1])
      [] clause.col = "category_year" ->
            /\ row.category_year.t = "int"
            /\ \E i \in 1..Len(clause.params) : clause.params[i] = row.category_year.v[1]
      [] clause.col = "category_type" ->
            /\ row.category_type.t = "str"
            /\ \E i \in 1..Len(clause.params) : clause.params[i] = row.category_type.v
      [] clause.col = "keywords" ->
            \A j \in 1..(Len(clause.params) \div 3) :
                \/ ColLike(row.keywords, clause.params[3 * j - 2])
                \/ ColLike(row.summary, clause.params[3 * j - 1])
                \/ ColLike(row.filename, clause.params[3 * j])

\* ORDER BY last_modified DESC
RECURSIVE OrderByModifiedDesc(_)
OrderByModifiedDesc(rows) ==
    IF rows = {} THEN <<>>
    ELSE LET top == CHOOSE r \in rows : \A o \in rows : o.last_modified <= r.last_modified
         IN  <<top>> \o OrderByModifiedDesc(rows \ {top})

\* SELECT ... FROM files WHERE 1=1 AND <conditions> ORDER BY last_modified DESC
SelectRows(rows, conds) ==
    OrderByModifiedDesc({r \in rows : \A i \in 1..Len(conds) : RowSatisfies(r, conds[i])})


(***************************************************************************)
(* The live database file and the files table                              *)
(***************************************************************************)
\* content of a file: a SQLite database holding rows, or something else
Sqlite(rows) == [kind |-> "sqlite", rows |-> rows]

Missing == [kind |-> "missing", rows |-> {}]

\* the columns the search query selects
Project(r) ==
    [path |-> r.path, filename |-> r.filename, category_type |-> r.category_type,
     category_year |-> r.category_year, summary |-> r.summary, keywords |-> r.keywords]

\* "if conditions:" -- the query runs only when some clause was built
ShouldExecuteAlways(conds) == TRUE

ShouldExecute(conds) == conds # <<>>

\* query_db through get_db: a missing database file raises FileNotFoundError;
\* a file that is not a database makes execute raise sqlite3.Error
query_db(dbv, conds) ==
    IF dbv.kind = "missing"
    THEN [raised |-> "FileNotFoundError", rows |-> <<>>, queries |-> 0]
    ELSE IF dbv.kind # "sqlite"
    THEN [raised |-> "sqlite3.Error", rows |-> <<>>, queries |-> 1]
    ELSE LET sel == SelectRows(dbv.rows, conds)
         IN  [raised |-> "none", rows |-> [i \in 1..Len(sel) |-> Project(sel[i])],
              queries |-> 1]

\* search_database: sqlite3.Error is caught and turned into []; iterating an
\* int given as years is a TypeError that nothing catches
search_database(dbv, filename, years, file_types, keywords) ==
    LET conds == Conditions(filename, years, file_types, keywords)
        q == query_db(dbv, conds)
    IN  IF Truthy(years) /\ years.t = "int"
        THEN [raised |-> "TypeError", rows |-> <<>>, queries |-> 0]
        ELSE IF ~ShouldExecute(conds)
        THEN [raised |-> "none", rows |-> <<>>, queries |-> 0]
        ELSE IF q.raised = "sqlite3.Error"
        THEN [raised |-> "none", rows |-> <<>>, queries |-> q.queries]
        ELSE q

(***************************************************************************)
(* Rows the indexer can have written, and the inputs a caller can pass     *)
(***************************************************************************)
Row1 ==
    [rowid |-> 1, path |-> <<"/","r","/","a">>, filename |-> Str(<<"a","b">>),
     category_year |-> Num(23), category_type |-> Str(<<"T">>),
     summary |-> Str(<<"m">>), keywords |-> Str(<<"k",",","n">>), last_modified |-> 3]

Row2 ==
    [rowid |-> 2, path |-> <<"/","r","/","d","/","b">>, filename |-> Str(<<"A","c">>),
     category_year |-> Num(24), category_type |-> Str(<<"W">>),
     summary |-> None, keywords |-> Str(<<"k">>), last_modified |-> 2]

Row3 ==
    [rowid |-> 3, path |-> <<"/","r","/","c">>, filename |-> Str(<<"c","_","d">>),
     category_year |-> None, category_type |-> None,
     summary |-> Str(<<"k"," ","m">>), keywords |-> None, last_modified |-> 1]

RowPool == {Row1, Row2, Row3}

FilenameInputs ==
    {None, Str(<<>>), Str(<<"a">>), Str(<<"B">>), Str(<<"_">>), Str(<<"z">>)}

YearInputs ==
    {None, List(<<>>),
     List(<<Str(<<"2","3">>)>>),
     List(<<Str(<<"2","3">>), Str(<<"2","4">>)>>),
     List(<<Str(<<>>), Str(<<" ","2","4">>)>>),
     List(<<Str(<<"x">>)>>),
     List(<<Str(<<"2","3">>), Str(<<"x">>)>>),
     List(<<Num(24)>>),
     Str(<<"2","3">>),
     Num(23), Num(0)}

TypeInputs ==
    {None, List(<<>>), Str(<<"T">>), List(<<Str(<<"T">>)>>),
     List(<<Str(<<"T">>), Str(<<"W">>)>>), List(<<Str(<<"t">>)>>)}

KeywordInputs ==
    {None, Str(<<>>), Str(<<"k">>), Str(<<"K">>), Str(<<"k",",","m">>),
     Str(<<" ","k"," ",","," ",",","m">>), Str(<<",">>), Str(<<"_">>)}

NoRequest == [op |-> "none"]

\* a call of search_database that has not run yet
PendingSearch(filename, years, file_types, keywords) ==
    [op |-> "call search_database", filename |-> filename, years |-> years,
     file_types |-> file_types, keywords |-> keywords]

\* the pending call runs against the live database
SearchDatabase ==
    /\ last.op = "call search_database"
    /\ LET out == search_database(db, last.filename, last.years,
                                  last.file_types, last.keywords)
       IN  last' = [op |-> "search_database", filename |-> last.filename,
                    years |-> last.years, file_types |-> last.file_types,
                    keywords |-> last.keywords, raised |-> out.raised,
                    rows |-> out.rows, queries |-> out.queries]
    /\ UNCHANGED <<db, backups, clock, made, thumbs, conns, copying, md_files>>

InitSearch ==
    /\ db \in {Missing} \cup {Sqlite(rows) : rows \in SUBSET RowPool}
    /\ backups = <<>>
    /\ clock = 0
    /\ made = <<>>
    /\ thumbs = <<>>
    /\ conns = NoConnections
    /\ copying = NotCopying
    /\ md_files = ProjectDir
    /\ \E filename \in FilenameInputs, years \in YearInputs,
          file_types \in TypeInputs, keywords \in KeywordInputs :
            last = PendingSearch(filename, years, file_types, keywords)

NextSearch == SearchDatabase

SpecSearch == InitSearch /\ [][NextSearch]_vars

(***************************************************************************)
(* Properties of search_database                                           *)
(***************************************************************************)
Searched == last.op = "search_database"

ReturnedPaths == {last.rows[i].path : i \in 1..Len(last.rows)}

FoldSeq(s) == [i \in 1..Len(s) |-> Fold(s[i])]

\* the text occurs in the column as a substring, letter case ignored
OccursIn(text, col) == col.t = "str" /\ Contains(FoldSeq(col.v), FoldSeq(text))

\* the years argument is a list whose non-empty entries all denote integers
YearsWellFormed(years) ==
    years.t = "list" /\ \A i \in 1..Len(years.v) :
        Truthy(years.v[i]) => IntOf(years.v[i]).ok

GivenYears(years) ==
    {IntOf(years.v[i]).n : i \in {j \in 1..Len(years.v) : Truthy(years.v[j])}}

GivenTypes(file_types) == SeqToSet(TypeList(file_types))

GivenKeywords(keywords) == SeqToSet(KeywordList(keywords))

FilenameActive(filename) == Truthy(filename)

YearsActive(years) == Truthy(years) /\ GivenYears(years) # {}

TypesActive(file_types) == Truthy(file_types)

KeywordsActive(keywords) == Truthy(keywords) /\ GivenKeywords(keywords) # {}

\* the conjunction of the active filters, stated on the row itself
MeetsFilters(row, filename, years, file_types, keywords) ==
    /\ FilenameActive(filename) => OccursIn(filename.v, row.filename)
    /\ YearsActive(years) =>
          row.category_year.t = "int" /\ row.category_year.v[1] \in GivenYears(years)
    /\ TypesActive(file_types) =>
          row.category_type.t = "str" /\ row.category_type.v \in GivenTypes(file_types)
    /\ KeywordsActive(keywords) =>
          \A kw \in GivenKeywords(keywords) :
              OccursIn(kw, row.keywords) \/ OccursIn(kw, row.summary)
                  \/ OccursIn(kw, row.filename)

\* C1: with at least one filter active, the result holds exactly the rows that
\* satisfy the conjunction of all active filters (filename substring, year in
\* the given years, type in the given types, keyword condition): none
\* missing, none extra.  Years are taken as a list of integers here; letter
\* case is ignored in the substring tests.
C1_ExactConjunction ==
    (/\ Searched
     /\ db.kind = "sqlite"
     /\ last.years.t = "none" \/ YearsWellFormed(last.years)
     /\ \/ FilenameActive(last.filename) \/ YearsActive(last.years)
        \/ TypesActive(last.file_types) \/ KeywordsActive(last.keywords))
    => /\ last.raised = "none"
       /\ ReturnedPaths =
            {r.path : r \in {x \in db.rows :
                MeetsFilters(x, last.filename, last.years,
                             last.file_types, last.keywords)}}

AllFiltersEmpty ==
    /\ ~Truthy(last.filename) /\ ~Truthy(last.years)
    /\ ~Truthy(last.file_types) /\ ~Truthy(last.keywords)

\* C2: with filename, years, file_types and keywords all absent or empty,
\* search_database returns the empty list, does not raise and executes no
\* query, whatever the state of the database file.
C2_NoFiltersNoQuery ==
    (Searched /\ AllFiltersEmpty)
    => (last.raised = "none" /\ last.rows = <<>> /\ last.queries = 0)

\* a search with every filter present but empty ran against a populated table
C2_Witness ==
    /\ Searched /\ AllFiltersEmpty
    /\ db = Sqlite(RowPool)
    /\ last.years = List(<<>>) /\ last.keywords = Str(<<>>)
    /\ last.filename = Str(<<>>) /\ last.file_types = List(<<>>)

\* C3: the keyword input is split on commas, trimmed, empties dropped, and a
\* row is returned iff every remaining keyword occurs as a substring of its
\* keywords field, its summary or its filename (letter case ignored); a row
\* missing one keyword in all three fields is never returned.
C3_KeywordSemantics ==
    (/\ Searched
     /\ db.kind = "sqlite"
     /\ KeywordsActive(last.keywords)
     /\ ~Truthy(last.filename) /\ ~Truthy(last.years) /\ ~Truthy(last.file_types))
    => \A r \in db.rows :
          (r.path \in ReturnedPaths) <=>
              \A kw \in GivenKeywords(last.keywords) :
                  \E col \in {r.keywords, r.summary, r.filename} : OccursIn(kw, col)

SingleValue(x) == x.t \in {"str", "int"} /\ Truthy(x)

Outcome(out) == <<out.raised, out.rows>>

\* C4: a single value v passed as years (or as file_types) gives the same
\* result as the one-element list [v].
C4_SingleValueAsList ==
    /\ (Searched /\ SingleValue(last.years))
        => <<last.raised, last.rows>> =
              Outcome(search_database(db, last.filename, List(<<last.years>>),
                                      last.file_types, last.keywords))
    /\ (Searched /\ SingleValue(last.file_types))
        => <<last.raised, last.rows>> =
              Outcome(search_database(db, last.filename, last.years,
                                      List(<<last.file_types>>), last.keywords))

(***************************************************************************)
(* os.path on POSIX                                                        *)
(***************************************************************************)
\* the process's working directory
Cwd == <<"/","w">>

\* os.path.join(a, b)
PathJoin(a, b) ==
    IF StartsWith(b, <<"/">>) THEN b
    ELSE IF a = <<>> \/ EndsWith(a, <<"/">>) THEN a \o b
    ELSE a \o <<"/">> \o b

\* the component loop of posixpath.normpath: "" and "." are skipped, ".."
\* pops the previous component, is dropped at the root, and is kept at the
\* start of a relative path
RECURSIVE NormComps(_, _, _)
NormComps(comps, acc, rooted) ==
    IF comps = <<>> THEN acc
    ELSE LET c == Head(comps)
         IN  IF c = <<>> \/ c = <<".">>
             THEN NormComps(Tail(comps), acc, rooted)
             ELSE IF \/ c # <<".", ".">>
                     \/ (~rooted /\ acc = <<>>)
                     \/ (acc # <<>> /\ acc[Len(acc)] = <<".", ".">>)
             THEN NormComps(Tail(comps), Append(acc, c), rooted)
             ELSE IF acc # <<>>
             THEN NormComps(Tail(comps), SubSeq(acc, 1, Len(acc) - 1), rooted)
             ELSE NormComps(Tail(comps), acc, rooted)

\* "/".join(comps)
RECURSIVE JoinSlash(_)
JoinSlash(comps) ==
    IF comps = <<>> THEN <<>>
    ELSE IF Len(comps) = 1 THEN Head(comps)
    ELSE Head(comps) \o <<"/">> \o JoinSlash(Tail(comps))

\* os.path.normpath: exactly two leading slashes are kept as two
NormPath(path) ==
    LET lead == IF StartsWith(path, <<"/","/">>) /\ ~StartsWith(path, <<"/","/","/">>)
                THEN <<"/","/">>
                ELSE IF StartsWith(path, <<"/">>) THEN <<"/">> ELSE <<>>
        res == lead \o JoinSlash(NormComps(Split(path, "/"), <<>>, lead # <<>>))
    IN  IF res = <<>> THEN <<".">> ELSE res

\* os.path.abspath
AbsPath(path) ==
    IF StartsWith(path, <<"/">>) THEN NormPath(path) ELSE NormPath(PathJoin(Cwd, path))

\* os.path.basename
RECURSIVE Basename(_)
Basename(path) ==
    IF \E i \in 1..Len(path) : path[i] = "/"
    THEN Basename(Tail(path))
    ELSE path

(***************************************************************************)
(* Backup lifecycle: the backup directory, create, download, restore       *)
(***************************************************************************)
\* app.config['BACKUP_DIR'] and app.config['DATABASE'], relative to Cwd
BackupDir == <<"b">>

DatabasePath == <<"f",".","d","b">>

\* a file next to the live database, outside the backup directory
OutsideDb == <<"/","w","/","s",".","d","b">>

\* a commit-tagged code backup left in the backup directory by the commit hook
CodeZip == <<"c",".","z","i","p">>

ZipContent == [kind |-> "zip", rows |-> {}]

\* what a copy interrupted partway leaves behind
Partial == [kind |-> "partial", rows |-> {}]

EmptyDir == <<>>

\* the directory with one more (or one replaced) entry
WithFile(dir, name, content) ==
    [n \in DOMAIN dir \cup {name} |-> IF n = name THEN content ELSE dir[n]]

\* the path of a backup directory entry, as os.path.join builds it
BackupPath(filename) == PathJoin(BackupDir, filename)

BackupDirPrefix == AbsPath(BackupDir) \o <<"/">>

\* os.path.isfile on the file system seen by the process
IsFile(path) ==
    LET abs == AbsPath(path)
    IN  \/ /\ StartsWith(abs, BackupDirPrefix)
           /\ SubSeq(abs, Len(BackupDirPrefix) + 1, Len(abs)) \in DOMAIN backups
        \/ abs = AbsPath(DatabasePath) /\ db.kind # "missing"
        \/ abs = OutsideDb

\* the content of an existing file
ReadFile(path) ==
    LET abs == AbsPath(path)
    IN  IF abs = AbsPath(DatabasePath) THEN db
        ELSE IF abs = OutsideDb THEN Sqlite({Row3})
        ELSE backups[SubSeq(abs, Len(BackupDirPrefix) + 1, Len(abs))]

\* datetime.now().strftime("%Y%m%d_%H%M%S"): one value per clock second
Timestamp(t) ==
    <<"2","0","2","4","0","1","0","1","_","1","2","0","0">>
        \o <<Digits[((t \div 10) % 10) + 1], Digits[(t % 10) + 1]>>

\* f"file_index_{timestamp}.db"
BackupFilename(t) ==
    <<"f","i","l","e","_","i","n","d","e","x","_">> \o Timestamp(t)
        \o <<".","d","b">>

\* the clock moves on by a second
Tick ==
    /\ clock < MaxClock
    /\ clock' = clock + 1
    /\ UNCHANGED <<db, backups, made, thumbs, last, conns, copying, md_files>>

\* rows an indexer run writes between two backups
IndexedRows == {Row1}

\* indexer: setup_database creates the file, insert_update_db upserts by path
IndexerInsert(r) ==
    /\ db.kind \in {"missing", "sqlite"}
    /\ db' = Sqlite({x \in db.rows : x.path # r.path} \cup {r})
    /\ UNCHANGED <<backups, clock, made, thumbs, last, conns, copying, md_files>>

\* what shutil.copy2 can do: copy the whole file, raise before anything is
\* written, or raise partway and leave a truncated destination behind
CopyOutcomes == {"ok", "failed", "partial"}

create_backupNoExistsCheck(copy) ==
    LET name == BackupFilename(clock)
        copied == db.kind # "missing" /\ copy = "ok"
    IN  [returned |-> IF copied THEN Str(PathJoin(BackupDir, name)) ELSE None,
         attempts |-> 1,
         dir |-> IF copied THEN WithFile(backups, name, db)
                 ELSE IF db.kind # "missing" /\ copy = "partial"
                      THEN WithFile(backups, name, Partial)
                 ELSE backups]

\* create_backup: the returned value, the number of shutil.copy2 calls made
\* and the backup directory it leaves
create_backup(copy) ==
    LET name == BackupFilename(clock)
    IN  IF db.kind = "missing"
        THEN [returned |-> None, attempts |-> 0, dir |-> backups]
        ELSE [returned |-> IF copy = "ok" THEN Str(PathJoin(BackupDir, name)) ELSE None,
              attempts |-> 1,
              dir |-> IF copy = "ok" THEN WithFile(backups, name, db)
                      ELSE IF copy = "partial" THEN WithFile(backups, name, Partial)
                      ELSE backups]

\* backup_now: create_backup, a flash message, a redirect to the history page
BackupNow(copy) ==
    LET backup_file == create_backup(copy)
        created == Truthy(backup_file.returned)
        name == IF created THEN Basename(backup_file.returned.v) ELSE <<>>
    IN  /\ backups' = backup_file.dir
        /\ made' = IF created /\ name \notin DOMAIN made
                   THEN WithFile(made, name, db) ELSE made
        /\ last' = [op |-> "backup_now", filename |-> name,
                    status |-> 302, location |-> "history",
                    flash |-> IF created THEN "success" ELSE "error",
                    read |-> IF created THEN AbsPath(DatabasePath) ELSE <<>>,
                    returned |-> backup_file.returned,
                    attempts |-> backup_file.attempts]
        /\ UNCHANGED <<db, clock, thumbs, conns, copying, md_files>>

\* "'..' in filename or filename.startswith('/')"
Traversal(filename) == Contains(filename, <<".", ".">>) \/ StartsWith(filename, <<"/">>)

\* "not os.path.abspath(path).startswith(os.path.abspath(backup_dir))"
OutsideBackupDir(path) == ~StartsWith(AbsPath(path), AbsPath(BackupDir))

RestoreStatusNoExtensionCheck(filename) ==
    IF Traversal(filename) THEN 400
    ELSE IF OutsideBackupDir(BackupPath(filename)) THEN 403
    ELSE IF ~IsFile(BackupPath(filename)) THEN 404
    ELSE 302

RestoreStatusNoExistenceCheck(filename) ==
    IF Traversal(filename) \/ ~EndsWith(filename, <<".","d","b">>) THEN 400
    ELSE IF OutsideBackupDir(BackupPath(filename)) THEN 403
    ELSE 302

\* the checks of restore_backup in their order; 302 = the copy is attempted
RestoreStatus(filename) ==
    IF Traversal(filename) \/ ~EndsWith(filename, <<".","d","b">>) THEN 400
    ELSE IF OutsideBackupDir(BackupPath(filename)) THEN 403
    ELSE IF ~IsFile(BackupPath(filename)) THEN 404
    ELSE 302

\* restore_backup; copy is "ok", "failed" (nothing written) or "partial"
RestoreBackup(filename, copy) ==
    LET status == RestoreStatus(filename)
        path == BackupPath(filename)
        done == status = 302 /\ IsFile(path) /\ copy = "ok"
    IN  /\ db' = IF done THEN ReadFile(path)
                 ELSE IF status = 302 /\ IsFile(path) /\ copy = "partial" THEN Partial
                 ELSE db
        /\ last' = [op |-> "restore_backup", filename |-> filename, status |-> status,
                    flash |-> IF done THEN "success" ELSE "error",
                    read |-> IF status = 302 /\ IsFile(path) THEN AbsPath(path) ELSE <<>>]
        /\ UNCHANGED <<backups, clock, made, thumbs, conns, copying, md_files>>

\* the checks of download_backup in their order; 200 = send_file is called
DownloadBackupStatus(filename) ==
    IF Traversal(filename) THEN 400
    ELSE IF OutsideBackupDir(BackupPath(filename)) THEN 403
    ELSE IF ~IsFile(BackupPath(filename)) THEN 404
    ELSE 200

\* the checks of download_code_backup in their order
DownloadCodeBackupStatus(filename) ==
    IF Traversal(filename) \/ ~EndsWith(filename, <<".","z","i","p">>) THEN 400
    ELSE IF OutsideBackupDir(BackupPath(filename)) THEN 403
    ELSE IF ~IsFile(BackupPath(filename)) THEN 404
    ELSE 200

\* send_file of the checked path; send_ok = FALSE is send_file raising
Download(op, status, filename, send_ok) ==
    LET path == BackupPath(filename)
    IN  /\ last' = [op |-> op, filename |-> filename,
                    status |-> IF status = 200 /\ ~send_ok THEN 500 ELSE status,
                    flash |-> "none",
                    read |-> IF status = 200 /\ send_ok THEN AbsPath(path) ELSE <<>>]
        /\ UNCHANGED <<db, backups, clock, made, thumbs, conns, copying, md_files>>

DownloadBackup(filename, send_ok) ==
    Download("download_backup", DownloadBackupStatus(filename), filename, send_ok)

DownloadCodeBackup(filename, send_ok) ==
    Download("download_code_backup", DownloadCodeBackupStatus(filename), filename, send_ok)

\* filenames a request can carry: the entries of the directory and some others
RequestNames ==
    DOMAIN backups \cup
        {CodeZip, <<"x",".","d","b">>, <<"y",".","z","i","p">>,
         <<"d","/","x",".","d","b">>, <<"a",".",".","d","b">>,
         <<".",".","/","s",".","d","b">>, OutsideDb}

Init ==
    /\ db \in {Missing, Sqlite({})}
    /\ backups \in {EmptyDir, WithFile(EmptyDir, CodeZip, ZipContent)}
    /\ clock = 0
    /\ made = EmptyDir
    /\ thumbs = EmptyDir
    /\ conns = NoConnections
    /\ copying = NotCopying
    /\ md_files = ProjectDir
    /\ last = NoRequest

Next ==
    \/ Tick
    \/ \E r \in IndexedRows : IndexerInsert(r)
    \/ \E copy \in CopyOutcomes : BackupNow(copy)
    \/ \E f \in RequestNames, copy \in {"ok", "failed", "partial"} : RestoreBackup(f, copy)

Spec == Init /\ [][Next]_vars

\* the filename-parameterized backup routes over the directories a run of
\* the lifecycle and the commit hook can leave behind
BackupDirStates ==
    {[n \in names |->
        IF n = CodeZip THEN ZipContent
        ELSE IF n = BackupFilename(0) THEN Sqlite({}) ELSE Sqlite({Row1})] :
     names \in SUBSET {CodeZip, BackupFilename(0), BackupFilename(1)}}

InitRoutes ==
    /\ db \in {Missing, Sqlite({Row1, Row2})}
    /\ backups \in BackupDirStates
    /\ clock = 0
    /\ made = EmptyDir
    /\ thumbs = EmptyDir
    /\ conns = NoConnections
    /\ copying = NotCopying
    /\ md_files = ProjectDir
    /\ last = NoRequest

NextRoutes ==
    \/ \E f \in RequestNames, copy \in {"ok", "failed", "partial"} : RestoreBackup(f, copy)
    \/ \E f \in RequestNames, send_ok \in BOOLEAN : DownloadBackup(f, send_ok)
    \/ \E f \in RequestNames, send_ok \in BOOLEAN : DownloadCodeBackup(f, send_ok)

SpecRoutes == InitRoutes /\ [][NextRoutes]_vars

(***************************************************************************)
(* Properties of the backup lifecycle and the backup routes                *)
(***************************************************************************)
RestoreCopies == {"ok", "failed", "partial"}

\* C5: a backup B taken while the live database held content C, then any
\* modifications and further backups, then a successful restore of B's
\* filename: the live database holds C again.
C5_RestoreRoundTrip ==
    [][(/\ \E f \in RequestNames : RestoreBackup(f, "ok")
        /\ last'.flash = "success"
        /\ last'.filename \in DOMAIN made)
       => db' = made[last'.filename]]_vars

\* the filename contains '..', starts with '/', or does not end with '.db'
Malformed(filename) ==
    \/ Contains(filename, <<".", ".">>)
    \/ StartsWith(filename, <<"/">>)
    \/ ~EndsWith(filename, <<".","d","b">>)

\* C6: restore_backup answers 400 for every filename that contains '..',
\* starts with '/', or does not end with '.db', and leaves the live database
\* and the backup directory as they were, whether or not a file of that name
\* exists.
C6_MalformedRejected ==
    [][\A f \in RequestNames, copy \in RestoreCopies :
          (RestoreBackup(f, copy) /\ Malformed(f))
          => (last'.status = 400 /\ last'.read = <<>>
              /\ db' = db /\ backups' = backups)]_vars

\* a restore of a wrong-extension name that exists in the backup directory
\* was answered 400 while a live database was in place
C6_Witness ==
    /\ last.op = "restore_backup" /\ last.status = 400
    /\ last.filename \in DOMAIN backups
    /\ db.kind = "sqlite"

\* the file the name resolves to is not beneath the backup directory
ResolvesOutside(filename) ==
    ~StartsWith(AbsPath(BackupPath(filename)), BackupDirPrefix)

\* C7: restore_backup with a well-formed filename that resolves outside the
\* backup directory or names no existing file answers 404 and leaves the
\* live database as it was.
C7_MissingRejected ==
    [][\A f \in RequestNames, copy \in RestoreCopies :
          (/\ RestoreBackup(f, copy)
           /\ ~Malformed(f)
           /\ ResolvesOutside(f) \/ ~IsFile(BackupPath(f)))
          => (last'.status = 404 /\ last'.read = <<>> /\ db' = db)]_vars

\* a restore of a well-formed name with no file behind it was answered 404
\* while a live database and other backups were in place
C7_Witness ==
    /\ last.op = "restore_backup" /\ last.status = 404
    /\ ~Malformed(last.filename)
    /\ last.filename \notin DOMAIN backups
    /\ db.kind = "sqlite" /\ DOMAIN backups # {}

ExpectedExtension(op) ==
    IF op = "download_code_backup" THEN <<".","z","i","p">> ELSE <<".","d","b">>

\* C9: download_backup, download_code_backup and restore_backup only ever
\* read a file inside the backup directory that carries the route's
\* extension (.db for database backups, .zip for code backups).
C9_ConfinedExtensionChecked ==
    (/\ last.op \in {"download_backup", "download_code_backup", "restore_backup"}
     /\ last.read # <<>>)
    => /\ StartsWith(last.read, BackupDirPrefix)
       /\ EndsWith(last.read, ExpectedExtension(last.op))

\* C10: every manual backup that reports success adds exactly one new file,
\* named file_index_*.db, to the backup directory; the number of files grows
\* by one and no existing backup is replaced.
C10_OneNewFilePerBackup ==
    [][(/\ \E copy \in CopyOutcomes : BackupNow(copy)
        /\ last'.flash = "success")
       => /\ Cardinality(DOMAIN backups') = Cardinality(DOMAIN backups) + 1
          /\ \A n \in DOMAIN backups : n \in DOMAIN backups' /\ backups'[n] = backups[n]
          /\ \A n \in DOMAIN backups' \ DOMAIN backups :
                /\ StartsWith(n, <<"f","i","l","e","_","i","n","d","e","x","_">>)
                /\ EndsWith(n, <<".","d","b">>)]_vars

\* C11: when the live database file is missing or the copy fails,
\* create_backup returns None after exactly one copy attempt (none when the
\* source is missing), backup_now flashes a failure notice and redirects to
\* the history page, and the live database is unchanged; with the source
\* missing no file is added to the backup directory.
C11_BackupFailureReported ==
    [][\A copy \in CopyOutcomes :
          (BackupNow(copy) /\ (db.kind = "missing" \/ copy # "ok"))
          => /\ last'.returned = None
             /\ last'.attempts = (IF db.kind = "missing" THEN 0 ELSE 1)
             /\ last'.flash = "error"
             /\ last'.status = 302 /\ last'.location = "history"
             /\ db' = db
             /\ db.kind = "missing" => backups' = backups]_vars

\* a backup request found no live database, made no copy and reported failure
C11_Witness ==
    /\ last.op = "backup_now" /\ last.flash = "error"
    /\ last.attempts = 0 /\ db.kind = "missing"


(***************************************************************************)
(* The archive root and the path-parameterized routes                      *)
(***************************************************************************)
\* app.config['INDEXED_ROOT_DIR'], already absolute
IndexedRootDir == <<"/","r">>

\* app.config['THUMBNAIL_CACHE_DIR'], relative to Cwd
ThumbnailCacheDir == <<"t">>

\* the files on disk: beneath the archive root, in a sibling directory whose
\* name starts with the root's name, and elsewhere
DiskFiles ==
    {[path |-> <<"/","r","/","a">>, kind |-> "text"],
     [path |-> <<"/","r","/","d","/","b">>, kind |-> "image"],
     [path |-> <<"/","r","/","d","_","b">>, kind |-> "image"],
     [path |-> <<"/","r","x","/","s">>, kind |-> "text"],
     [path |-> <<"/","e">>, kind |-> "text"]}

DiskDirs == {<<"/">>, <<"/","r">>, <<"/","r","/","d">>, <<"/","r","x">>}

\* os.path.isfile / os.path.isdir of an absolute normalised path
IsDiskFile(abs) == \E f \in DiskFiles : f.path = abs

IsDiskDir(abs) == abs \in DiskDirs

DiskFile(abs) == CHOOSE f \in DiskFiles : f.path = abs

\* os.path.dirname of an absolute normalised path
RECURSIVE Dirname(_)
Dirname(abs) ==
    IF abs = <<>> THEN <<>>
    ELSE IF abs[Len(abs)] = "/"
         THEN IF Len(abs) = 1 THEN abs ELSE SubSeq(abs, 1, Len(abs) - 1)
    ELSE Dirname(SubSeq(abs, 1, Len(abs) - 1))

\* os.listdir, split into the sub-directories and the files of the directory
ListDirs(dir) == {d \in DiskDirs : d # dir /\ Dirname(d) = dir}

ListFiles(dir) == {f.path : f \in {g \in DiskFiles : Dirname(g.path) = dir}}

\* os.path.abspath(os.path.join(root, user_path))
Resolve(user_path) == AbsPath(PathJoin(AbsPath(IndexedRootDir), user_path))

\* "safe_path.startswith(indexed_root_abs + os.sep)"
UnderRoot(abs) == StartsWith(abs, AbsPath(IndexedRootDir) \o <<"/">>)

\* "requested_path.startswith(base_dir)" as browse tests it
BrowseAllowed(abs) == StartsWith(abs, AbsPath(IndexedRootDir))

\* a response that carries no content
Reply(op, path, status) ==
    [op |-> op, path |-> path, status |-> status, body |-> <<>>, listed |-> {}]

\* download_file; send_ok = FALSE is send_file raising
DownloadFile(file_path, send_ok) ==
    LET safe_path == Resolve(file_path)
        status == IF file_path = <<>> THEN 404
                  ELSE IF ~UnderRoot(safe_path) THEN 403
                  ELSE IF ~IsDiskFile(safe_path) THEN 404
                  ELSE IF ~send_ok THEN 500
                  ELSE 200
    IN  /\ last' = [Reply("download_file", file_path, status)
                        EXCEPT !.body = IF status = 200 THEN safe_path ELSE <<>>]
        /\ UNCHANGED <<db, backups, clock, made, thumbs, conns, copying, md_files>>

\* browse: the listing queries the files table once per file of the
\* directory; a failing query is caught by "except Exception" and gives 500
Browse(sub_path) ==
    LET requested_path == Resolve(sub_path)
        files == ListFiles(requested_path)
        status == IF ~BrowseAllowed(requested_path) THEN 403
                  ELSE IF ~IsDiskDir(requested_path) THEN 404
                  ELSE IF files # {} /\ db.kind # "sqlite" THEN 500
                  ELSE 200
    IN  /\ last' = [Reply("browse", sub_path, status)
                        EXCEPT !.body = IF status = 200 THEN requested_path ELSE <<>>,
                               !.listed = IF status = 200
                                          THEN ListDirs(requested_path) \cup files
                                          ELSE {}]
        /\ UNCHANGED <<db, backups, clock, made, thumbs, conns, copying, md_files>>

\* the characters re.sub(r'[^a-zA-Z0-9_.-]', '_', ...) keeps
KeptInCacheName(c) ==
    \/ \E i \in 1..Len(UpperCase) : UpperCase[i] = c \/ LowerCase[i] = c
    \/ IsDigit(c)
    \/ c \in {"_", ".", "-"}

\* the cache file name derived from the path relative to the archive root
CacheFilename(abs) ==
    LET rel == SubSeq(abs, Len(AbsPath(IndexedRootDir)) + 2, Len(abs))
    IN  [i \in 1..Len(rel) |-> IF KeptInCacheName(rel[i]) THEN rel[i] ELSE "_"]
            \o <<"_","t","h","u","m","b",".","j","p","g">>

\* serve_thumbnail: generate on a cache miss, then send the cached file;
\* io_ok = FALSE is Pillow or send_file raising an unexpected exception
ServeThumbnail(file_path, io_ok) ==
    LET safe == Resolve(file_path)
        name == CacheFilename(safe)
        checked == IF ~UnderRoot(safe) THEN 403
                   ELSE IF ~IsDiskFile(safe) THEN 404
                   ELSE 200
        hit == checked = 200 /\ name \in DOMAIN thumbs
        generated == checked = 200 /\ ~hit /\ DiskFile(safe).kind = "image" /\ io_ok
        status == IF checked # 200 THEN checked
                  ELSE IF hit THEN (IF io_ok THEN 200 ELSE 500)
                  ELSE IF DiskFile(safe).kind # "image" THEN 404
                  ELSE IF io_ok THEN 200 ELSE 500
    IN  /\ thumbs' = IF generated THEN WithFile(thumbs, name, safe) ELSE thumbs
        /\ last' = [Reply("serve_thumbnail", file_path, status)
                        EXCEPT !.body = IF status = 200 THEN thumbs'[name] ELSE <<>>]
        /\ UNCHANGED <<db, backups, clock, made, conns, copying, md_files>>

\* paths a request can carry
RequestPaths ==
    {<<>>, <<".">>, <<"a">>, <<"d">>, <<"d","/","b">>, <<"d","_","b">>, <<"z">>,
     <<".",".","/","r","/","a">>, <<".",".">>,
     <<".",".","/","r","x">>, <<".",".","/","r","x","/","s">>, <<".",".","/","r","z">>,
     <<".",".","/","e">>, <<"/","e">>}

InitPaths ==
    /\ db \in {Missing, Sqlite({}), Sqlite(RowPool)}
    /\ backups = EmptyDir
    /\ clock = 0
    /\ made = EmptyDir
    /\ thumbs = EmptyDir
    /\ conns = NoConnections
    /\ copying = NotCopying
    /\ md_files = ProjectDir
    /\ last = NoRequest

NextPaths ==
    \/ \E p \in RequestPaths, send_ok \in BOOLEAN : DownloadFile(p, send_ok)
    \/ \E p \in RequestPaths : Browse(p)
    \/ \E p \in RequestPaths, io_ok \in BOOLEAN : ServeThumbnail(p, io_ok)

SpecPaths == InitPaths /\ [][NextPaths]_vars

\* the location is the archive root or lies beneath it
AtOrBeneathRoot(abs) == abs = IndexedRootDir \/ StartsWith(abs, IndexedRootDir \o <<"/">>)

\* C8: on download_file, browse and serve_thumbnail alike, a path whose
\* canonicalised join with the archive root is not a location beneath the
\* root (a sibling directory whose name starts with the root's name
\* included) is answered 403 and nothing from that location is returned.
C8_ConfinedToRoot ==
    (/\ last.op \in {"download_file", "browse", "serve_thumbnail"}
     /\ ~AtOrBeneathRoot(Resolve(last.path)))
    => (last.status = 403 /\ last.body = <<>> /\ last.listed = {})

(***************************************************************************)
(* Keyword frequency aggregation: get_top_keywords                         *)
(***************************************************************************)
MaxRows == 4

\* get_top_keywords(limit=50)
DefaultLimit == 50

\* math.log works in floating point; the model keeps three decimal places
Unit == 1000

\* round(1000 * math.log(n)) for n = 1..40
LnTable ==
    <<0, 693, 1099, 1386, 1609, 1792, 1946, 2079, 2197, 2303,
      2398, 2485, 2565, 2639, 2708, 2773, 2833, 2890, 2944, 2996,
      3045, 3091, 3135, 3178, 3219, 3258, 3296, 3332, 3367, 3401,
      3434, 3466, 3497, 3526, 3555, 3584, 3611, 3638, 3664, 3689>>

\* math.log(n), in thousandths
Ln(n) == LnTable[n]

\* a quotient of two integers with a positive denominator
Rat(num, den) == [num |-> num, den |-> den]

RatLeq(a, b) == a.num * b.den <= b.num * a.den

\* values of the keywords column
KeywordFields ==
    {None, Str(<<>>), Str(<<"a">>), Str(<<"b",","," ","a">>),
     Str(<<"a",",",",","a"," ">>), Str(<<"c">>)}

\* the i-th row of the files table, holding the given keywords field
TagRow(i, field) ==
    [rowid |-> i, path |-> <<"/","r","/">> \o <<Digits[i + 1]>>,
     filename |-> Str(<<"f">>), category_year |-> None, category_type |-> None,
     summary |-> None, keywords |-> field, last_modified |-> i]

TagRows(fields) == {TagRow(i, fields[i]) : i \in 1..Len(fields)}

\* the rows as a table scan yields them, by rowid
RECURSIVE TableScan(_)
TableScan(rows) ==
    IF rows = {} THEN <<>>
    ELSE LET first == CHOOSE r \in rows : \A o \in rows : r.rowid <= o.rowid
         IN  <<first>> \o TableScan(rows \ {first})

\* "WHERE keywords IS NOT NULL AND keywords != ''"
HasKeywords(r) == r.keywords.t = "str" /\ r.keywords.v # <<>>

\* SELECT keywords FROM files WHERE keywords IS NOT NULL AND keywords != ''
SelectKeywords(rows) ==
    LET hits == SelectSeq(TableScan(rows), HasKeywords)
    IN  [i \in 1..Len(hits) |-> hits[i].keywords]

\* Counter(): keywords with their counts, in order of first insertion
EmptyCounter == <<>>

\* Counter.update with one element
CounterAdd(counter, kw) ==
    IF \E i \in 1..Len(counter) : counter[i].text = kw
    THEN [i \in 1..Len(counter) |->
            IF counter[i].text = kw
            THEN [text |-> kw, count |-> counter[i].count + 1]
            ELSE counter[i]]
    ELSE Append(counter, [text |-> kw, count |-> 1])

RECURSIVE CounterUpdate(_, _)
CounterUpdate(counter, kws) ==
    IF kws = <<>> THEN counter
    ELSE CounterUpdate(CounterAdd(counter, Head(kws)), Tail(kws))

\* the fetchone loop: each fetched field is split, trimmed and counted
RECURSIVE CountRows(_, _)
CountRows(counter, fields) ==
    IF fields = <<>> THEN counter
    ELSE CountRows(IF Truthy(Head(fields))
                   THEN CounterUpdate(counter, KeywordList(Head(fields)))
                   ELSE counter,
                   Tail(fields))

\* sorted(counter.items(), key=count, reverse=True): stable among equal counts
RECURSIVE SortByCountDesc(_)
SortByCountDesc(counter) ==
    IF counter = <<>> THEN <<>>
    ELSE LET i == CHOOSE k \in 1..Len(counter) :
                    /\ \A j \in 1..Len(counter) : counter[j].count <= counter[k].count
                    /\ \A j \in 1..(k - 1) : counter[j].count < counter[k].count
         IN  <<counter[i]>> \o
             SortByCountDesc(SubSeq(counter, 1, i - 1) \o SubSeq(counter, i + 1, Len(counter)))

Take(seq, n) == SubSeq(seq, 1, IF n < Len(seq) THEN n ELSE Len(seq))

most_commonUnlimited(counter, limit) == SortByCountDesc(counter)

\* Counter.most_common(limit)
most_common(counter, limit) == Take(SortByCountDesc(counter), limit)

\* "log_min = 1"
log_min == 1

\* "log_max = math.log(top_keywords[0][1] + log_min)"
log_max(top_keywords) == Ln(top_keywords[1].count + log_min)

\* "log_range = log_max - math.log(top_keywords[-1][1] + log_min) if ... else 1"
\* followed by "log_range = max(log_range, 1)"
log_range(top_keywords) ==
    LET lowest == top_keywords[Len(top_keywords)].count
        raw == IF Len(top_keywords) > 1 /\ lowest > 0
               THEN log_max(top_keywords) - Ln(lowest + log_min)
               ELSE 1 * Unit
    IN  IF raw > 1 * Unit THEN raw ELSE 1 * Unit

font_scaleInverse(count, range) ==
    Rat(range - 3 * (Ln(count + log_min) - log_min * Unit), range)

\* "font_scale = 1 + 3 * (math.log(count + log_min) - log_min) / log_range",
\* or 2 when log_range is not positive
font_scale(count, range) ==
    IF range > 0
    THEN Rat(range + 3 * (Ln(count + log_min) - log_min * Unit), range)
    ELSE Rat(2, 1)

\* the scaling loop; math.log raises ValueError on a non-positive argument
ScaleKeywords(top_keywords) ==
    IF \E i \in 1..Len(top_keywords) : top_keywords[i].count + log_min <= 0
    THEN [raised |-> "ValueError", result |-> <<>>]
    ELSE [raised |-> "none",
          result |-> [i \in 1..Len(top_keywords) |->
                        [text |-> top_keywords[i].text,
                         weight |-> top_keywords[i].count,
                         font_scale |-> font_scale(top_keywords[i].count,
                                                   log_range(top_keywords))]]]

\* get_top_keywords; query_ok = FALSE is sqlite3.Error during the scan
get_top_keywords(file, limit, query_ok) ==
    IF file.kind = "missing" THEN [raised |-> "FileNotFoundError", result |-> <<>>]
    ELSE IF file.kind # "sqlite" \/ ~query_ok THEN [raised |-> "none", result |-> <<>>]
    ELSE LET top_keywords == most_common(CountRows(EmptyCounter, SelectKeywords(file.rows)),
                                         limit)
         IN  IF top_keywords # <<>> THEN ScaleKeywords(top_keywords)
             ELSE [raised |-> "none", result |-> <<>>]

LimitInputs == {1, 2, DefaultLimit}

\* the pending call runs against the live database
GetTopKeywords(query_ok) ==
    /\ last.op = "call get_top_keywords"
    /\ LET out == get_top_keywords(db, last.limit, query_ok)
       IN  last' = [op |-> "get_top_keywords", limit |-> last.limit,
                    query_ok |-> query_ok, raised |-> out.raised,
                    result |-> out.result]
    /\ UNCHANGED <<db, backups, clock, made, thumbs, conns, copying, md_files>>

InitTags ==
    /\ db \in {Missing} \cup
              {Sqlite(TagRows(fields)) :
                 fields \in UNION {[1..n -> KeywordFields] : n \in 0..MaxRows}}
    /\ backups = <<>>
    /\ clock = 0
    /\ made = <<>>
    /\ thumbs = <<>>
    /\ conns = NoConnections
    /\ copying = NotCopying
    /\ md_files = ProjectDir
    /\ \E limit \in LimitInputs : last = [op |-> "call get_top_keywords", limit |-> limit]

NextTags == \E query_ok \in BOOLEAN : GetTopKeywords(query_ok)

SpecTags == InitTags /\ [][NextTags]_vars

(***************************************************************************)
(* Properties of get_top_keywords                                          *)
(***************************************************************************)
\* the call ran the query and returned
Counted == last.op = "get_top_keywords" /\ last.raised = "none" /\ last.query_ok

\* C12: of any two keywords returned by get_top_keywords the one with the
\* larger count never has the smaller font_scale, and the computation does
\* not raise, also when all counts are equal or only one keyword exists.
C12_ScaleMonotone ==
    (last.op = "get_top_keywords" /\ db.kind = "sqlite")
    => /\ last.raised = "none"
       /\ \A i, j \in 1..Len(last.result) :
             last.result[i].weight <= last.result[j].weight
             => RatLeq(last.result[i].font_scale, last.result[j].font_scale)

\* three keywords came back, two with equal counts and one with a larger one
C12_Witness ==
    /\ Counted /\ Len(last.result) = 3
    /\ last.result[1].weight > last.result[2].weight
    /\ last.result[2].weight = last.result[3].weight

\* C13: every font_scale produced by get_top_keywords lies between 1 and 4.
C13_ScaleWithinRange ==
    Counted
    => \A i \in 1..Len(last.result) :
          /\ RatLeq(Rat(1, 1), last.result[i].font_scale)
          /\ RatLeq(last.result[i].font_scale, Rat(4, 1))

\* the comma-separated entries of a field, trimmed
Entries(field) ==
    LET pieces == Split(field.v, ",")
    IN  [i \in 1..Len(pieces) |-> Strip(pieces[i])]

\* how often kw occurs in the keywords fields of the table
RECURSIVE Occurrences(_, _)
Occurrences(kw, rows) ==
    IF rows = {} THEN 0
    ELSE LET r == CHOOSE x \in rows : TRUE
             here == IF r.keywords.t = "str"
                     THEN Cardinality({i \in 1..Len(Entries(r.keywords)) :
                                          Entries(r.keywords)[i] = kw})
                     ELSE 0
         IN  here + Occurrences(kw, rows \ {r})

\* every non-empty trimmed entry of every keywords field
CorpusKeywords(rows) ==
    UNION {{e \in SeqToSet(Entries(r.keywords)) : e # <<>>} :
             r \in {x \in rows : x.keywords.t = "str"}}

\* C14: get_top_keywords(limit) returns at most limit entries in
\* non-increasing order of count; they are distinct keywords with the highest
\* occurrence counts of the corpus, each weight is the keyword's exact
\* occurrence count, and an empty corpus yields an empty list.
C14_TopByCount ==
    Counted
    => LET res == last.result
           returned == {res[i].text : i \in 1..Len(res)}
           corpus == CorpusKeywords(db.rows)
       IN  /\ Len(res) <= last.limit
           /\ Len(res) = (IF Cardinality(corpus) < last.limit
                          THEN Cardinality(corpus) ELSE last.limit)
           /\ Cardinality(returned) = Len(res)
           /\ returned \subseteq corpus
           /\ \A i \in 1..Len(res) : res[i].weight = Occurrences(res[i].text, db.rows)
           /\ \A i \in 1..(Len(res) - 1) : res[i].weight >= res[i + 1].weight
           /\ \A kw \in corpus \ returned, i \in 1..Len(res) :
                 Occurrences(kw, db.rows) <= res[i].weight
           /\ corpus = {} => res = <<>>

\* the limit cut the list: two keywords with different counts came back, a
\* third one did not
C14_Witness ==
    /\ Counted /\ last.limit = 2 /\ Len(last.result) = 2
    /\ Cardinality(CorpusKeywords(db.rows)) = 3
    /\ last.result[1].weight > last.result[2].weight

(***************************************************************************)
(* Commit history, tags and commit packages                                *)
(***************************************************************************)
MaxFiles == 3

\* s.strip(chars)
RECURSIVE LStripChars(_, _)
LStripChars(s, chars) ==
    IF s # <<>> /\ Head(s) \in chars THEN LStripChars(Tail(s), chars) ELSE s

RECURSIVE RStripChars(_, _)
RStripChars(s, chars) ==
    IF s # <<>> /\ s[Len(s)] \in chars
    THEN RStripChars(SubSeq(s, 1, Len(s) - 1), chars) ELSE s

StripChars(s, chars) == RStripChars(LStripChars(s, chars), chars)

\* s.replace(old, ''), old not empty
RECURSIVE Remove(_, _)
Remove(s, old) ==
    IF s = <<>> THEN <<>>
    ELSE IF StartsWith(s, old) THEN Remove(SubSeq(s, Len(old) + 1, Len(s)), old)
    ELSE <<Head(s)>> \o Remove(Tail(s), old)

\* s.split(sep, maxsplit)
RECURSIVE SplitMaxAcc(_, _, _, _)
SplitMaxAcc(s, sep, maxsplit, cur) ==
    IF maxsplit = 0 THEN <<cur \o s>>
    ELSE IF s = <<>> THEN <<cur>>
    ELSE IF Head(s) = sep THEN <<cur>> \o SplitMaxAcc(Tail(s), sep, maxsplit - 1, <<>>)
    ELSE SplitMaxAcc(Tail(s), sep, maxsplit, Append(cur, Head(s)))

SplitMax(s, sep, maxsplit) == SplitMaxAcc(s, sep, maxsplit, <<>>)

\* the characters file names are made of, in code point order
Alphabet ==
    <<".", "0", "1", "2", "3", "4", "5", "6", "7", "8", "9", "_">> \o LowerCase

Ord(c) == CHOOSE i \in 1..Len(Alphabet) : Alphabet[i] = c

\* a < b for strings
RECURSIVE StrLess(_, _)
StrLess(a, b) ==
    IF b = <<>> THEN FALSE
    ELSE IF a = <<>> THEN TRUE
    ELSE IF Head(a) = Head(b) THEN StrLess(Tail(a), Tail(b))
    ELSE Ord(Head(a)) < Ord(Head(b))

\* sorted(names, reverse=True)
RECURSIVE SortedReverse(_)
SortedReverse(names) ==
    IF names = {} THEN <<>>
    ELSE LET top == CHOOSE n \in names : \A o \in names : o = n \/ StrLess(o, n)
         IN  <<top>> \o SortedReverse(names \ {top})

\* short hashes of two commits, and a hash no commit has
Hash1 == <<"a","1">>

Hash2 == <<"a","1","b">>

NoHash == <<"c","3">>

\* the names get_commit_details looks for
CommitDbName(short_hash) == <<"c","o","m","m","i","t","_">> \o short_hash \o <<".","d","b">>

CommitZipName(short_hash) == <<"c","o","m","m","i","t","_">> \o short_hash \o <<".","z","i","p">>

\* the names the post-commit hook gives its artifacts
HookDbName(short_hash) == <<"d","b","_","c","o","m","m","i","t","_">> \o short_hash \o <<".","d","b">>

HookZipName(short_hash) == <<"c","o","d","e","_","c","o","m","m","i","t","_">> \o short_hash \o <<".","z","i","p">>

ArtifactNames ==
    {CommitDbName(Hash1), CommitZipName(Hash1), HookDbName(Hash1), HookZipName(Hash1),
     CommitDbName(Hash2), CommitZipName(Hash2), BackupFilename(0), BackupFilename(1),
     <<"f","i","l","e","_","i","n","d","e","x","_","9",".","z","i","p">>}

\* what a file of the backup directory holds
ArtifactContent(name) ==
    IF EndsWith(name, <<".","z","i","p">>) THEN ZipContent ELSE Sqlite({})

HistoryDirs ==
    {[n \in names |-> ArtifactContent(n)] :
       names \in {d \in SUBSET ArtifactNames : Cardinality(d) <= MaxFiles}}

\* glob.glob(os.path.join(backup_dir, name)) for a name without wildcards
GlobExact(name) == {n \in DOMAIN backups : n = name}

\* glob.glob(os.path.join(backup_dir, prefix + '*' + suffix))
GlobPrefixSuffix(prefix, suffix) ==
    {n \in DOMAIN backups :
        /\ Len(n) >= Len(prefix) + Len(suffix)
        /\ StartsWith(n, prefix) /\ EndsWith(n, suffix)}

\* re.match(r'^v?(\d+\.\d+\.\d+)$', tag_name): group 1, or None
VersionMatch(tag_name) ==
    LET body == IF tag_name # <<>> /\ Head(tag_name) = "v" THEN Tail(tag_name)
                ELSE tag_name
        parts == Split(body, ".")
    IN  IF /\ Len(parts) = 3
           /\ \A i \in 1..3 : parts[i] # <<>> /\ \A k \in 1..Len(parts[i]) : IsDigit(parts[i][k])
        THEN Str(body) ELSE None

\* CHANGELOG.md: absent, holding notes for the version, or not holding any
ChangelogStates == {"missing", "section", "no section"}

\* get_changelog_notes: rendered notes, or None; it catches every exception
get_changelog_notes(changelog, version) ==
    IF changelog = "section" THEN Str(<<"<","d","i","v",">">>) ELSE None

\* what subprocess.run(['git', ...], check=True) can do
GitOutcomes == {"ok", "FileNotFoundError", "CalledProcessError"}

\* stdout of 'git log --pretty=format:%h|%H|%ad|%s|%an|%d'
GitLogLine1 == <<"a","1","¦","f","1","¦","d","2","¦","s","¦","n","¦"," ","(","H","E","A","D"," ","-",">"," ","m",","," ","t","a","g",":"," ","v","1",".","2",".","3",","," ","t","a","g",":"," ","x",")">>

GitLogLine2 == <<"a","1","b","¦","f","2","¦","d","1","¦","s","¦","n","¦">>

GitLogOutputs ==
    {<<>>, GitLogLine1 \o <<"\n">>,
     GitLogLine1 \o <<"\n">> \o GitLogLine2,
     GitLogLine1 \o <<"\n">> \o <<"j","u","n","k">> \o <<"\n">> \o GitLogLine2}

\* stdout of 'git tag -l v* --format=... --sort=-creatordate'
GitTagOutputs ==
    {<<>>, <<"v","1",".","2",".","3","¦","a","1","¦","2","0","2","4","-","0","1","-","0","2","T","1","0",":","0","0","¦","s">> \o <<"\n">> \o <<"v","x","¦","a","1","b","¦","2","0","2","4","-","0","1","-","0","1"," ","0","9",":","0","0","¦","t","¦","u">> \o <<"\n">>}

\* the tags named in a decorations field
RECURSIVE DecorationTags(_)
DecorationTags(decoration_parts) ==
    IF decoration_parts = <<>> THEN <<>>
    ELSE LET part == Strip(Head(decoration_parts))
         IN  (IF StartsWith(part, <<"t","a","g",":"," ">>)
              THEN <<Strip(Remove(part, <<"t","a","g",":"," ">>))>> ELSE <<>>)
             \o DecorationTags(Tail(decoration_parts))

\* the first tag that is a version tag, as X.Y.Z
RECURSIVE FirstVersion(_)
FirstVersion(tags) ==
    IF tags = <<>> THEN None
    ELSE IF VersionMatch(Head(tags)) # None THEN VersionMatch(Head(tags))
    ELSE FirstVersion(Tail(tags))

\* one parsed line of git log with its backup flags and release notes
CommitRecord(parts, changelog) ==
    LET decorations == parts[6]
        tags == IF decorations # <<>>
                THEN DecorationTags(Split(StripChars(Strip(decorations), {"(", ")"}), ","))
                ELSE <<>>
        version_tag == FirstVersion(tags)
    IN  [hash |-> parts[1], full_hash |-> parts[2], date |-> parts[3],
         subject |-> parts[4], author |-> parts[5], tags |-> tags,
         version |-> version_tag,
         has_db_backup |-> GlobExact(CommitDbName(parts[1])) # {},
         has_zip_backup |-> GlobExact(CommitZipName(parts[1])) # {},
         release_notes |-> IF Truthy(version_tag)
                           THEN get_changelog_notes(changelog, version_tag.v)
                           ELSE None]

RECURSIVE CommitRecords(_, _)
CommitRecords(lines, changelog) ==
    IF lines = <<>> THEN <<>>
    ELSE LET parts == SplitMax(Strip(Head(lines)), "¦", 5)
         IN  (IF Len(parts) = 6 THEN <<CommitRecord(parts, changelog)>> ELSE <<>>)
             \o CommitRecords(Tail(lines), changelog)

get_commit_detailsUncaught(git, stdout, changelog) ==
    IF git # "ok" THEN [raised |-> git, result |-> <<>>]
    ELSE [raised |-> "none",
          result |-> IF Strip(stdout) = <<>> THEN <<>>
                     ELSE CommitRecords(Split(Strip(stdout), "\n"), changelog)]

\* get_commit_details: [] when git is missing or fails or prints nothing
get_commit_details(git, stdout, changelog) ==
    [raised |-> "none",
     result |-> IF git # "ok" \/ Strip(stdout) = <<>> THEN <<>>
                ELSE CommitRecords(Split(Strip(stdout), "\n"), changelog)]

RECURSIVE TagRecords(_, _)
TagRecords(lines, changelog) ==
    IF lines = <<>> THEN <<>>
    ELSE LET parts == SplitMax(Strip(Head(lines)), "¦", 3)
             version == IF Len(parts) = 4 THEN VersionMatch(parts[1]) ELSE None
         IN  (IF Len(parts) = 4
              THEN <<[name |-> parts[1], hash |-> parts[2],
                      date |-> Split(parts[3], "T")[1], subject |-> parts[4],
                      release_notes |-> IF version # None
                                        THEN get_changelog_notes(changelog, version.v)
                                        ELSE None]>>
              ELSE <<>>)
             \o TagRecords(Tail(lines), changelog)

\* get_tag_details: [] when git is missing or fails or prints nothing
get_tag_details(git, stdout, changelog) ==
    [raised |-> "none",
     result |-> IF git # "ok" \/ Strip(stdout) = <<>> THEN <<>>
                ELSE TagRecords(Split(Strip(Strip(stdout)), "\n"), changelog)]

ManualBackupsAnyDb ==
    SortedReverse({f \in DOMAIN backups : EndsWith(f, <<".","d","b">>)})

\* the manual backups of the directory, newest name first
ManualBackups ==
    SortedReverse({f \in DOMAIN backups :
                     StartsWith(f, <<"f","i","l","e","_","i","n","d","e","x","_">>) /\ EndsWith(f, <<".","d","b">>)})

\* the workflow notes section: rendered, or a notice that the file is absent
WorkflowNotes(notes_file) ==
    IF notes_file = "present" THEN <<"<","p",">">> ELSE <<"<","p",">","<","e","m",">">>

\* a request that has not been handled yet
PendingHistory(log_stdout, tag_stdout, changelog) ==
    [op |-> "call history", log_stdout |-> log_stdout, tag_stdout |-> tag_stdout,
     changelog |-> changelog]

PendingPackage(commit_hash) ==
    [op |-> "call download_commit_package", commit_hash |-> commit_hash]

\* what listing the backup directory can do: list it, find it absent
\* (os.path.exists is false), or raise
ListdirOutcomes == {"ok", "missing", "error"}

\* history: commits, tags, manual backups and workflow notes, rendered; a
\* backup directory that is absent has no entries
History(git_log, git_tag, listdir, notes_file) ==
    /\ last.op = "call history"
    /\ listdir = "missing" => backups = EmptyDir
    /\ LET commits == get_commit_details(git_log, last.log_stdout, last.changelog)
           tag_details == get_tag_details(git_tag, last.tag_stdout, last.changelog)
           raised == commits.raised # "none" \/ tag_details.raised # "none"
       IN  last' = [op |-> "history",
                    git_log |-> git_log, git_tag |-> git_tag, listdir |-> listdir,
                    status |-> IF raised THEN 500 ELSE 200,
                    commits |-> IF raised THEN <<>> ELSE commits.result,
                    tag_details |-> IF raised THEN <<>> ELSE tag_details.result,
                    rendered |-> IF raised THEN {}
                                 ELSE {"commits", "tag_details", "manual_db_backups",
                                       "workflow_notes_html"},
                    manual_db_backups |-> IF raised \/ listdir # "ok" THEN <<>>
                                          ELSE ManualBackups,
                    flash |-> IF ~raised /\ listdir = "error" THEN "error" ELSE "none",
                    workflow_notes_html |-> IF raised THEN <<>>
                                            ELSE WorkflowNotes(notes_file)]
    /\ UNCHANGED <<db, backups, clock, made, thumbs, conns, copying, md_files>>

\* the project files a bundle takes along when they exist
ProjectFiles == {<<"P","R","O","J","E","C","T","_","N","O","T","E","S",".","m","d">>, <<"C","H","A","N","G","E","L","O","G",".","m","d">>, <<"V","E","R","S","I","O","N">>}

\* download_commit_package: 404 unless both globs match, then the first match
\* of each goes into the bundle with the project files that exist; glob
\* returns matches in directory order
DownloadCommitPackage(zip_ok, existing) ==
    /\ last.op = "call download_commit_package"
    /\ LET commit_hash == last.commit_hash
           db_backup_files == GlobPrefixSuffix(<<"c","o","m","m","i","t","_">> \o commit_hash, <<".","d","b">>)
           code_backup_files == GlobPrefixSuffix(<<"c","o","m","m","i","t","_">> \o commit_hash, <<".","z","i","p">>)
       IN  IF db_backup_files = {} \/ code_backup_files = {}
           THEN last' = [op |-> "download_commit_package", commit_hash |-> commit_hash,
                         status |-> 404, bundle |-> {}]
           ELSE \E db_backup_file \in db_backup_files,
                   code_backup_file \in code_backup_files :
                  last' = [op |-> "download_commit_package",
                           commit_hash |-> commit_hash,
                           status |-> IF zip_ok THEN 200 ELSE 500,
                           bundle |-> IF zip_ok
                                      THEN {db_backup_file, code_backup_file}
                                           \cup existing
                                      ELSE {}]
    /\ UNCHANGED <<db, backups, clock, made, thumbs, conns, copying, md_files>>

RequestHashes == {Hash1, Hash2, NoHash}

InitHistory ==
    /\ db = Sqlite({})
    /\ backups \in HistoryDirs
    /\ clock = 0
    /\ made = <<>>
    /\ thumbs = <<>>
    /\ conns = NoConnections
    /\ copying = NotCopying
    /\ md_files = ProjectDir
    /\ \/ \E log_stdout \in GitLogOutputs, tag_stdout \in GitTagOutputs,
             changelog \in ChangelogStates :
               last = PendingHistory(log_stdout, tag_stdout, changelog)
       \/ \E commit_hash \in RequestHashes : last = PendingPackage(commit_hash)

NextHistory ==
    \/ \E git_log \in GitOutcomes, git_tag \in GitOutcomes,
          listdir \in ListdirOutcomes, notes_file \in {"present", "missing"} :
            History(git_log, git_tag, listdir, notes_file)
    \/ \E zip_ok \in BOOLEAN, existing \in SUBSET ProjectFiles :
            DownloadCommitPackage(zip_ok, existing)

SpecHistory == InitHistory /\ [][NextHistory]_vars

(***************************************************************************)
(* Properties of the history view and the commit package                   *)
(***************************************************************************)
\* C15: when git is missing or a git command fails, get_commit_details and
\* get_tag_details return an empty list without raising and the history route
\* answers 200 with the manual backup list and the workflow notes rendered.
C15_GitFailureDegrades ==
    last.op = "history"
    => /\ last.status = 200
       /\ last.git_log # "ok" => last.commits = <<>>
       /\ last.git_tag # "ok" => last.tag_details = <<>>
       /\ {"manual_db_backups", "workflow_notes_html"} \subseteq last.rendered
       /\ last.workflow_notes_html # <<>>
       /\ last.flash = "none" => last.manual_db_backups = ManualBackups

\* git was missing for the log and failed for the tags, and the page listed
\* two manual backups
C15_Witness ==
    /\ last.op = "history" /\ last.status = 200
    /\ last.git_log = "FileNotFoundError" /\ last.git_tag = "CalledProcessError"
    /\ Len(last.manual_db_backups) = 2

\* a database backup artifact of the commit is in the backup directory
HasDbArtifact(short_hash) ==
    \E n \in DOMAIN backups : n \in {CommitDbName(short_hash), HookDbName(short_hash)}

\* a code backup artifact of the commit is in the backup directory
HasZipArtifact(short_hash) ==
    \E n \in DOMAIN backups : n \in {CommitZipName(short_hash), HookZipName(short_hash)}

\* C16: for each commit returned by get_commit_details, has_db_backup is
\* true iff a database backup artifact embedding the commit's short hash is
\* in the backup directory, and has_zip_backup is true iff a code backup
\* artifact embedding it is; the flags are independent.
C16_BackupFlagsFaithful ==
    last.op = "history"
    => \A i \in 1..Len(last.commits) :
          /\ last.commits[i].has_db_backup = HasDbArtifact(last.commits[i].hash)
          /\ last.commits[i].has_zip_backup = HasZipArtifact(last.commits[i].hash)

\* C17: download_commit_package answers 404 whenever the database backup or
\* the code backup of the requested commit is missing from the backup
\* directory; otherwise the bundle it returns holds a database backup and a
\* code backup of that commit and no backup artifact of another commit.
C17_PackageOfCommit ==
    last.op = "download_commit_package"
    => LET own == {CommitDbName(last.commit_hash), HookDbName(last.commit_hash),
                   CommitZipName(last.commit_hash), HookZipName(last.commit_hash)}
       IN  /\ (~HasDbArtifact(last.commit_hash) \/ ~HasZipArtifact(last.commit_hash))
              => last.status = 404
           /\ (HasDbArtifact(last.commit_hash) /\ HasZipArtifact(last.commit_hash))
              => /\ last.status \in {200, 500}
                 /\ last.status = 200
                    => /\ last.bundle \subseteq own \cup ProjectFiles
                       /\ \E n \in last.bundle : EndsWith(n, <<".","d","b">>)
                       /\ \E n \in last.bundle : EndsWith(n, <<".","z","i","p">>)

(***************************************************************************)
(* Database connections of the request contexts                            *)
(***************************************************************************)
MaxRequests == 3

MaxCalls == 2

\* the application context of a request that has just been pushed
FreshContext ==
    [pc |-> "handler", database |-> 0, opened |-> 0, calls |-> 0, outcome |-> "none"]

\* get_db in the context of worker w; database = 0 is "g has no _database".
\* connect_ok = FALSE is sqlite3.connect raising
get_db(w, connect_ok) ==
    LET ctx == conns.g[w]
    IN  IF ctx.database # 0
        THEN [conns EXCEPT !.g[w].calls = ctx.calls + 1]
        ELSE IF db.kind = "missing" \/ ~connect_ok
        THEN [conns EXCEPT !.g[w].pc = "finished", !.g[w].outcome = "raise"]
        ELSE [conns EXCEPT !.open = conns.open \cup {conns.opened + 1},
                           !.opened = conns.opened + 1,
                           !.g[w].database = conns.opened + 1,
                           !.g[w].opened = ctx.opened + 1,
                           !.g[w].calls = ctx.calls + 1]

close_connectionUnlessRaised(w) ==
    IF conns.g[w].database # 0 /\ conns.g[w].outcome # "raise"
    THEN conns.open \ {conns.g[w].database}
    ELSE conns.open

\* close_connection, the teardown_appcontext handler: the connections left open
close_connection(w) ==
    IF conns.g[w].database # 0 THEN conns.open \ {conns.g[w].database}
    ELSE conns.open

\* a request arrives and gets its own application context
BeginRequest(w) ==
    /\ conns.g[w].pc = "idle"
    /\ conns.begun < MaxRequests
    /\ conns' = [conns EXCEPT !.g[w] = FreshContext, !.begun = conns.begun + 1]
    /\ last' = [op |-> "request", worker |-> w]
    /\ UNCHANGED <<db, backups, clock, made, thumbs, copying, md_files>>

\* the handler calls get_db, directly or through query_db
GetDb(w, connect_ok) ==
    /\ conns.g[w].pc = "handler"
    /\ conns.g[w].calls < MaxCalls
    /\ conns' = get_db(w, connect_ok)
    /\ last' = [op |-> "get_db", worker |-> w]
    /\ UNCHANGED <<db, backups, clock, made, thumbs, copying, md_files>>

\* the handler returns a response, aborts or raises
Finish(w, outcome) ==
    /\ conns.g[w].pc = "handler"
    /\ conns' = [conns EXCEPT !.g[w].pc = "finished", !.g[w].outcome = outcome]
    /\ last' = [op |-> "finish", worker |-> w]
    /\ UNCHANGED <<db, backups, clock, made, thumbs, copying, md_files>>

\* the application context is popped: teardown runs, g is discarded
Teardown(w) ==
    /\ conns.g[w].pc = "finished"
    /\ conns' = [conns EXCEPT !.open = close_connection(w),
                              !.g[w] = NoConnections.g[w]]
    /\ last' = [op |-> "teardown", worker |-> w, outcome |-> conns.g[w].outcome,
                calls |-> conns.g[w].calls, closed |-> conns.g[w].database]
    /\ UNCHANGED <<db, backups, clock, made, thumbs, copying, md_files>>

InitConns ==
    /\ db \in {Missing, Sqlite({Row1})}
    /\ backups = <<>>
    /\ clock = 0
    /\ made = <<>>
    /\ thumbs = <<>>
    /\ last = NoRequest
    /\ conns = NoConnections
    /\ copying = NotCopying
    /\ md_files = ProjectDir

NextConns ==
    \E w \in Workers :
        \/ BeginRequest(w)
        \/ \E connect_ok \in BOOLEAN : GetDb(w, connect_ok)
        \/ \E outcome \in {"return", "abort", "raise"} : Finish(w, outcome)
        \/ Teardown(w)

SpecConns == InitConns /\ [][NextConns]_vars

\* C18: a request opens at most one database connection, on its first
\* get_db call, and later calls reuse it; every connection that is open
\* belongs to a request still in progress, so teardown has closed the
\* connection of every request that returned, aborted or raised, and with no
\* request in progress no connection is open.
C18_OneConnectionPerRequest ==
    /\ \A w \in Workers :
          /\ conns.g[w].opened <= 1
          /\ conns.g[w].calls >= 1 => (conns.g[w].database # 0 /\ conns.g[w].opened = 1)
          /\ conns.g[w].pc = "idle" => conns.g[w].database = 0
    /\ conns.open = {conns.g[w].database : w \in {x \in Workers : conns.g[x].database # 0}}
    /\ (\A w \in Workers : conns.g[w].pc = "idle") => conns.open = {}

\* a handler that called get_db twice and then raised has been torn down, and
\* after several requests no connection is open
C18_Witness ==
    /\ last.op = "teardown" /\ last.outcome = "raise"
    /\ last.calls = 2 /\ last.closed # 0
    /\ conns.opened >= 2 /\ conns.open = {}

(***************************************************************************)
(* A restore interleaved with requests that read the live database         *)
(***************************************************************************)
CopyInFlightAtomic(source, pre) == pre

\* the destination of shutil.copy2 while the copy runs: opened for writing,
\* truncated and filled chunk by chunk
CopyInFlight(source, pre) == Partial

\* restore_backup up to the point where shutil.copy2 is writing the live
\* database; open_ok = FALSE is the copy raising before it writes
RestoreBegin(filename, open_ok) ==
    LET status == RestoreStatus(filename)
        path == BackupPath(filename)
        starts == status = 302 /\ IsFile(path) /\ open_ok
    IN  /\ ~copying.active
        /\ copying' = IF starts
                      THEN [active |-> TRUE, filename |-> filename,
                            source |-> ReadFile(path), pre |-> db]
                      ELSE copying
        /\ db' = IF starts THEN CopyInFlight(ReadFile(path), db) ELSE db
        /\ last' = [op |-> "restore_backup", filename |-> filename,
                    status |-> IF starts THEN 0 ELSE status,
                    flash |-> IF starts THEN "none" ELSE "error",
                    read |-> IF status = 302 /\ IsFile(path) THEN AbsPath(path) ELSE <<>>]
        /\ UNCHANGED <<backups, clock, made, thumbs, conns, md_files>>

\* shutil.copy2 finishes or raises partway, then the flash and the redirect
RestoreEnd(copy) ==
    /\ copying.active
    /\ db' = IF copy = "ok" THEN copying.source ELSE db
    /\ copying' = NotCopying
    /\ last' = [op |-> "restore_backup", filename |-> copying.filename, status |-> 302,
                flash |-> IF copy = "ok" THEN "success" ELSE "error",
                read |-> AbsPath(BackupPath(copying.filename))]
    /\ UNCHANGED <<backups, clock, made, thumbs, conns, md_files>>

\* a search or browse request reads the live database file as it is
ReadLive(op) ==
    /\ last' = [op |-> op, observed |-> db, during_copy |-> copying.active]
    /\ UNCHANGED <<db, backups, clock, made, thumbs, conns, copying, md_files>>

InitRace ==
    /\ db \in {Missing, Sqlite({Row1, Row2})}
    /\ backups \in BackupDirStates
    /\ clock = 0
    /\ made = EmptyDir
    /\ thumbs = EmptyDir
    /\ last = NoRequest
    /\ conns = NoConnections
    /\ copying = NotCopying
    /\ md_files = ProjectDir

NextRace ==
    \/ \E f \in RequestNames, open_ok \in BOOLEAN : RestoreBegin(f, open_ok)
    \/ \E copy \in {"ok", "partial"} : RestoreEnd(copy)
    \/ \E op \in {"search", "browse"} : ReadLive(op)
    \/ \E copy \in CopyOutcomes : BackupNow(copy)

SpecRace == InitRace /\ [][NextRace]_vars

\* C19: restore takes no lock and does not copy atomically: a search, browse
\* or backup request served while a restore is copying reads a live database
\* file that is neither the content before the restore nor the content of
\* the backup being restored.
C19_RestoreNotAtomic ==
    [][(/\ copying.active
        /\ copying.pre.kind \in {"sqlite", "missing"}
        /\ copying.source.kind = "sqlite")
       => /\ \A op \in {"search", "browse"} :
                ReadLive(op) => last'.observed \notin {copying.pre, copying.source}
          /\ (BackupNow("ok") /\ last'.flash = "success")
             => backups'[last'.filename] \notin {copying.pre, copying.source}]_vars

\* a search was served while a restore was copying over a healthy live
\* database, and it read a partially copied file
C19_Witness ==
    /\ last.op = "search" /\ last.during_copy
    /\ copying.active /\ copying.pre.kind = "sqlite" /\ copying.source.kind = "sqlite"
    /\ last.observed = Partial

(***************************************************************************)
(* The markdown editor: update_md_file                                     *)
(***************************************************************************)
valid_md_filesAny == DOMAIN md_files

\* glob.glob('*.md'): the entries of the working directory that end in .md;
\* '*' does not match a leading dot
valid_md_files ==
    {n \in DOMAIN md_files :
        /\ ~Contains(n, <<"/">>)
        /\ EndsWith(n, <<".","m","d">>)
        /\ Head(n) # "."}

\* what open(filename, 'w') and f.write can do: succeed, raise on open, or
\* raise after the file was truncated
WriteOutcomes == {"ok", "open failed", "write failed"}

\* values of the form fields 'filename' and 'md_content'; NUL is '\x00'
FilenameFields ==
    {None, Str(<<>>), Str(<<"a",".","m","d">>), Str(<<"c",".","m","d">>), Str(<<"z",".","m","d">>), Str(<<"d","/","b",".","m","d">>),
     Str(<<".",".","/","e",".","m","d">>), Str(<<"n",".","t","x","t">>), Str(<<".","h",".","m","d">>), Str(<<".","/","a",".","m","d">>)}

ContentFields == {None, Str(<<>>), Str(<<"x">>), Str(<<"x", "NUL">>)}

\* update_md_file
UpdateMdFile(filename_to_update, new_content, io) ==
    LET missing == ~Truthy(filename_to_update) \/ new_content = None
        allowed == ~missing /\ filename_to_update.v \in valid_md_files
        safe_content == IF missing THEN <<>> ELSE Remove(new_content.v, <<"NUL">>)
        opened == allowed /\ io # "open failed"
    IN  /\ md_files' = IF opened
                       THEN [md_files EXCEPT ![filename_to_update.v] =
                                IF io = "ok" THEN safe_content ELSE <<>>]
                       ELSE md_files
        /\ last' = [op |-> "update_md_file", filename |-> filename_to_update,
                    md_content |-> new_content,
                    status |-> 302, location |-> "display_md_files",
                    flash |-> IF allowed /\ io = "ok" THEN "success" ELSE "error",
                    opened |-> IF opened THEN {filename_to_update.v} ELSE {}]
        /\ UNCHANGED <<db, backups, clock, made, thumbs, conns, copying>>

InitMd ==
    /\ db = Sqlite({})
    /\ backups = <<>>
    /\ clock = 0
    /\ made = <<>>
    /\ thumbs = <<>>
    /\ last = NoRequest
    /\ conns = NoConnections
    /\ copying = NotCopying
    /\ md_files = ProjectDir

NextMd ==
    \E filename \in FilenameFields, content \in ContentFields, io \in WriteOutcomes :
        UpdateMdFile(filename, content, io)

SpecMd == InitMd /\ [][NextMd]_vars

\* the .md files directly in the working directory
RootLevelMd == {n \in DOMAIN md_files : ~Contains(n, <<"/">>) /\ EndsWith(n, <<".","m","d">>)}

\* C20: update_md_file only ever writes the file whose name is exactly the
\* submitted filename and is one of the root-level .md files; for any other
\* filename, and for a missing filename or missing content, no file is
\* opened for writing, no content changes, and the request redirects to the
\* md_files page.
C20_WritesOnlyRootMd ==
    [][\A filename \in FilenameFields, content \in ContentFields, io \in WriteOutcomes :
          UpdateMdFile(filename, content, io)
          => /\ last'.status = 302 /\ last'.location = "display_md_files"
             /\ (\/ ~Truthy(filename) \/ content = None
                 \/ filename.v \notin RootLevelMd)
                => (md_files' = md_files /\ last'.opened = {})
             /\ \A n \in DOMAIN md_files' :
                   (n \notin DOMAIN md_files \/ md_files'[n] # md_files[n])
                   => (filename.t = "str" /\ n = filename.v /\ n \in RootLevelMd)]_vars

\* after a root-level file was rewritten, a request naming a file above the
\* working directory was turned away and that file is as it was
C20_Witness ==
    /\ last.op = "update_md_file" /\ last.filename = Str(<<".",".","/","e",".","m","d">>)
    /\ last.md_content = Str(<<"x">>)
    /\ last.flash = "error" /\ last.opened = {}
    /\ md_files[<<".",".","/","e",".","m","d">>] = <<"o">>
    /\ md_files[<<"a",".","m","d">>] = <<"x">>

(***************************************************************************)
(* The web layer and the file records: every statement the routes send to  *)
(* the index is a SELECT                                                   *)
(***************************************************************************)
executeDelete(file) == IF file.kind = "sqlite" THEN Sqlite({}) ELSE file

\* cursor.execute of a SELECT statement: the database file is left as it is
execute(file) == file

\* the database file after a route has run its queries; get_db raises before
\* connecting when the file does not exist
AfterQueries(file) == IF file.kind = "missing" THEN file ELSE execute(file)

\* SELECT DISTINCT category_type ... IS NOT NULL AND != '' (ORDER BY left out)
get_distinct_file_types(file) ==
    IF file.kind = "missing" THEN [raised |-> "FileNotFoundError", result |-> {}]
    ELSE IF file.kind # "sqlite" THEN [raised |-> "sqlite3.Error", result |-> {}]
    ELSE [raised |-> "none",
          result |-> {r.category_type.v : r \in {x \in file.rows :
                        x.category_type # None /\ x.category_type.v # <<>>}}]

\* SELECT DISTINCT category_year ... IS NOT NULL (ORDER BY left out)
get_distinct_years(file) ==
    IF file.kind = "missing" THEN [raised |-> "FileNotFoundError", result |-> {}]
    ELSE IF file.kind # "sqlite" THEN [raised |-> "sqlite3.Error", result |-> {}]
    ELSE [raised |-> "none",
          result |-> {r.category_year.v : r \in {x \in file.rows :
                        x.category_year # None}}]

\* index: the search when a term is given, then both dropdowns and the tag
\* cloud; an exception of any of them is a 500
Index(filename, years, file_types, keywords) ==
    LET searched == Truthy(filename) \/ Truthy(years) \/ Truthy(file_types)
                        \/ Truthy(keywords)
        results == IF searched
                   THEN search_database(db, filename, years, file_types, keywords)
                   ELSE [raised |-> "none", rows |-> <<>>, queries |-> 0]
        distinct_types == get_distinct_file_types(db)
        distinct_years == get_distinct_years(db)
        top_keywords == get_top_keywords(db, DefaultLimit, TRUE)
        raised == \/ results.raised # "none"
                  \/ distinct_types.raised # "none"
                  \/ distinct_years.raised # "none"
                  \/ top_keywords.raised # "none"
    IN  /\ db' = AfterQueries(db)
        /\ last' = [op |-> "index", status |-> IF raised THEN 500 ELSE 200,
                    results |-> IF raised THEN <<>> ELSE results.rows,
                    distinct_types |-> IF raised THEN {} ELSE distinct_types.result,
                    distinct_years |-> IF raised THEN {} ELSE distinct_years.result,
                    top_keywords |-> IF raised THEN <<>> ELSE top_keywords.result]
        /\ UNCHANGED <<backups, clock, made, thumbs, conns, copying, md_files>>

\* a request for the history page arrives
RequestHistory(log_stdout, tag_stdout, changelog) ==
    /\ last.op # "call history"
    /\ last' = PendingHistory(log_stdout, tag_stdout, changelog)
    /\ UNCHANGED <<db, backups, clock, made, thumbs, conns, copying, md_files>>

WebFilenames == {None, Str(<<"a">>)}

WebYears == {List(<<>>), List(<<Str(<<"2","3">>)>>)}

WebTypes == {List(<<>>), List(<<Str(<<"T">>)>>)}

WebKeywords == {None, Str(<<"k">>)}

InitWeb ==
    /\ db \in {Missing, Sqlite({Row1, Row2})}
    /\ backups \in {EmptyDir, WithFile(EmptyDir, BackupFilename(1), Sqlite({Row1}))}
    /\ clock = 0
    /\ made = EmptyDir
    /\ thumbs = EmptyDir
    /\ conns = NoConnections
    /\ copying = NotCopying
    /\ md_files = ProjectDir
    /\ last = NoRequest

NextWeb ==
    \/ \E filename \in WebFilenames, years \in WebYears, file_types \in WebTypes,
          keywords \in WebKeywords : Index(filename, years, file_types, keywords)
    \/ \E sub_path \in RequestPaths : Browse(sub_path)
    \/ \E changelog \in ChangelogStates :
          RequestHistory(GitLogLine1 \o <<"\n">>, <<>>, changelog)
    \/ \E git_log \in GitOutcomes, listdir \in ListdirOutcomes :
            History(git_log, "ok", listdir, "present")
    \/ \E copy \in CopyOutcomes : BackupNow(copy)
    \/ \E f \in RequestNames, copy \in {"ok", "failed", "partial"} : RestoreBackup(f, copy)

SpecWeb == InitWeb /\ [][NextWeb]_vars

\* C21: the file records change in no step of the search, index page, tag
\* cloud, dropdown, browse, history and backup requests; a step that changes
\* them is a restore_backup that copied a backup file over the database, and
\* the database is then what that copy of the backup file left
C21_ReadOnlyButRestore ==
    [][db' # db =>
         /\ last'.op = "restore_backup" /\ last'.status = 302
         /\ last'.read # <<>>
         /\ db' \in {ReadFile(BackupPath(last'.filename)), Partial}]_vars

\* an index page with results, dropdowns and a tag cloud was served from a
\* database holding records
C21_Witness ==
    /\ last.op = "index" /\ last.status = 200
    /\ last.results # <<>> /\ last.top_keywords # <<>>
    /\ last.distinct_types # {} /\ last.distinct_years # {}
    /\ db = Sqlite({Row1, Row2})

(***************************************************************************)
(* clean_up_database.py: rows whose path is gone from the disk are deleted *)
(* in batches                                                              *)
(***************************************************************************)
\* deletions that make a batch (500 in the source, scaled down)
COMMIT_INTERVAL == 2

delete_sqlFirstOnly(rows, ids_to_delete) ==
    {r \in rows : ids_to_delete = <<>> \/ r.rowid # ids_to_delete[1]}

\* "DELETE FROM files WHERE id IN (?,...)" with ids_to_delete
delete_sql(rows, ids_to_delete) ==
    {r \in rows : \A k \in 1..Len(ids_to_delete) : r.rowid # ids_to_delete[k]}

PendingClean == [op |-> "call clean_database"]

\* connect, SELECT id, path FROM files; an empty table returns at once;
\* query_ok = FALSE is sqlite3.Error, which is caught and reported
CleanStart(query_ok) ==
    /\ last.op = "call clean_database"
    /\ db.kind = "sqlite"
    /\ LET all_rows == TableScan(db.rows)
           total_rows == Len(all_rows)
       IN  last' = [op |-> "clean_database",
                    pc |-> IF query_ok /\ total_rows > 0 THEN "loop" ELSE "done",
                    raised |-> IF query_ok THEN "none" ELSE "sqlite3.Error",
                    all_rows |-> IF query_ok THEN all_rows ELSE <<>>,
                    next |-> 1, ids_to_delete |-> <<>>,
                    deleted_count |-> 0, checked_count |-> 0,
                    summary |-> FALSE,
                    found |-> db.rows, not_found |-> {}]
    /\ UNCHANGED <<db, backups, clock, made, thumbs, conns, copying, md_files>>

\* one turn of the loop over all_rows: os.path.exists answers exists; a full
\* batch is deleted and committed (commit_ok = FALSE is sqlite3.Error, and
\* closing the connection rolls the batch back)
CleanCheck(exists, commit_ok) ==
    /\ last.op = "clean_database" /\ last.pc = "loop"
    /\ last.next <= Len(last.all_rows)
    /\ LET row_id == last.all_rows[last.next].rowid
           marked == IF exists THEN last.ids_to_delete
                     ELSE Append(last.ids_to_delete, row_id)
           full == ~exists /\ Len(marked) >= COMMIT_INTERVAL
           failed == full /\ ~commit_ok
       IN  /\ db' = IF full /\ commit_ok
                    THEN Sqlite(delete_sql(db.rows, marked)) ELSE db
           /\ last' = [last EXCEPT
                         !.checked_count = @ + 1,
                         !.next = @ + 1,
                         !.not_found = IF exists THEN @ ELSE @ \cup {row_id},
                         !.ids_to_delete = IF full /\ commit_ok THEN <<>> ELSE marked,
                         !.deleted_count = IF full /\ commit_ok THEN @ + Len(marked)
                                           ELSE @,
                         !.raised = IF failed THEN "sqlite3.Error" ELSE @,
                         !.pc = IF failed THEN "done" ELSE @]
    /\ UNCHANGED <<backups, clock, made, thumbs, conns, copying, md_files>>

\* after the loop: the remaining batch, then the summary
CleanFinish(commit_ok) ==
    /\ last.op = "clean_database" /\ last.pc = "loop"
    /\ last.next > Len(last.all_rows)
    /\ LET remaining == last.ids_to_delete # <<>>
           failed == remaining /\ ~commit_ok
       IN  /\ db' = IF remaining /\ commit_ok
                    THEN Sqlite(delete_sql(db.rows, last.ids_to_delete)) ELSE db
           /\ last' = [last EXCEPT
                         !.deleted_count = IF remaining /\ commit_ok
                                           THEN @ + Len(last.ids_to_delete) ELSE @,
                         !.raised = IF failed THEN "sqlite3.Error" ELSE @,
                         !.summary = ~failed,
                         !.pc = "done"]
    /\ UNCHANGED <<backups, clock, made, thumbs, conns, copying, md_files>>

InitClean ==
    /\ db \in {Sqlite(TagRows([i \in 1..n |-> None])) : n \in 0..MaxRows}
    /\ backups = EmptyDir
    /\ clock = 0
    /\ made = EmptyDir
    /\ thumbs = EmptyDir
    /\ conns = NoConnections
    /\ copying = NotCopying
    /\ md_files = ProjectDir
    /\ last = PendingClean

NextClean ==
    \/ \E query_ok \in BOOLEAN : CleanStart(query_ok)
    \/ \E exists \in BOOLEAN, commit_ok \in BOOLEAN : CleanCheck(exists, commit_ok)
    \/ \E commit_ok \in BOOLEAN : CleanFinish(commit_ok)

SpecClean == InitClean /\ [][NextClean]_vars

\* C22: when clean_database has ended without a database error, the rows
\* left are the rows it found whose path existed when checked, every row
\* whose path was missing is gone, and the summary's deleted count is the
\* number of rows removed
C22_ExactlyMissingRemoved ==
    (last.op = "clean_database" /\ last.pc = "done" /\ last.raised = "none") =>
        /\ db.rows = {r \in last.found : r.rowid \notin last.not_found}
        /\ last.summary => last.deleted_count = Cardinality(last.found \ db.rows)

\* a run that removed more rows than one batch holds, not a whole number of
\* batches, and kept a row
C22_Witness ==
    /\ last.op = "clean_database" /\ last.pc = "done" /\ last.raised = "none"
    /\ last.summary
    /\ Cardinality(last.not_found) > COMMIT_INTERVAL
    /\ Cardinality(last.not_found) % COMMIT_INTERVAL # 0
    /\ Cardinality(db.rows) > 0
    /\ last.deleted_count = Cardinality(last.not_found)

(***************************************************************************)
(* indexer.py: insert_update_db on the files table of setup_database       *)
(***************************************************************************)
\* the columns of file_data the model keeps
RowOf(id, file_data) ==
    [rowid |-> id, path |-> file_data.path.v, filename |-> file_data.filename,
     category_year |-> file_data.category_year,
     category_type |-> file_data.category_type,
     summary |-> file_data.summary, keywords |-> file_data.keywords,
     last_modified |-> file_data.last_modified]

\* "path TEXT UNIQUE NOT NULL, filename TEXT NOT NULL"
NotNullViolated(file_data) == file_data.path = None \/ file_data.filename = None

\* "id INTEGER PRIMARY KEY AUTOINCREMENT"
NextId(rows) ==
    IF rows = {} THEN 1
    ELSE 1 + (CHOOSE n \in {r.rowid : r \in rows} : \A r \in rows : r.rowid <= n)

insert_update_dbPlainInsert(rows, file_data) ==
    IF NotNullViolated(file_data) THEN [returned |-> FALSE, rows |-> rows]
    ELSE [returned |-> TRUE,
          rows |-> rows \cup {RowOf(NextId(rows), file_data)}]

\* INSERT ... ON CONFLICT(path) DO UPDATE SET every other column; a
\* constraint failure is sqlite3.IntegrityError, caught, and False is returned
insert_update_db(rows, file_data) ==
    IF NotNullViolated(file_data) THEN [returned |-> FALSE, rows |-> rows]
    ELSE LET conflict == {r \in rows : r.path = file_data.path.v}
         IN  [returned |-> TRUE,
              rows |-> IF conflict = {}
                       THEN rows \cup {RowOf(NextId(rows), file_data)}
                       ELSE (rows \ conflict) \cup
                                {RowOf(r.rowid, file_data) : r \in conflict}]

\* what index_files can hand over for a file
FileData ==
    [path : {None, Str(<<"/","r","/","1">>), Str(<<"/","r","/","5">>)},
     filename : {None, Str(<<"f">>), Str(<<"g">>)},
     category_year : {None}, category_type : {None, Str(<<"T">>)},
     summary : {None}, keywords : {None, Str(<<"a">>)},
     last_modified : {7}]

\* a call of insert_update_db on the open database
InsertUpdateDb(file_data) ==
    /\ db.kind = "sqlite"
    /\ LET out == insert_update_db(db.rows, file_data)
       IN  /\ db' = Sqlite(out.rows)
           /\ last' = [op |-> "insert_update_db", file_data |-> file_data,
                       returned |-> out.returned]
    /\ UNCHANGED <<backups, clock, made, thumbs, conns, copying, md_files>>

InitIndexer ==
    /\ db \in {Sqlite(TagRows([i \in 1..n |-> None])) : n \in 0..2}
    /\ backups = EmptyDir
    /\ clock = 0
    /\ made = EmptyDir
    /\ thumbs = EmptyDir
    /\ conns = NoConnections
    /\ copying = NotCopying
    /\ md_files = ProjectDir
    /\ last = NoRequest

NextIndexer == \E file_data \in FileData : InsertUpdateDb(file_data)

SpecIndexer == InitIndexer /\ [][NextIndexer]_vars

UniquePaths(rows) == \A r1, r2 \in rows : r1.path = r2.path => r1 = r2

\* C23: after every insert_update_db no two rows share a path; a row of
\* another path is left as it was; a call for a path already present adds no
\* row and leaves that row, under its id, holding the new values
C23_UpsertByPath ==
    [][last'.op = "insert_update_db" =>
         /\ UniquePaths(db'.rows)
         /\ \A r \in db.rows :
               (last'.file_data.path = None \/ r.path # last'.file_data.path.v)
                   => r \in db'.rows
         /\ \A r \in db.rows :
               (last'.returned /\ r.path = last'.file_data.path.v) =>
                   /\ RowOf(r.rowid, last'.file_data) \in db'.rows
                   /\ Cardinality(db'.rows) = Cardinality(db.rows)]_vars

\* a path was indexed again with other values: its row changed, the other
\* row is still there
C23_Witness ==
    /\ last.op = "insert_update_db" /\ last.returned
    /\ last.file_data.path = Str(<<"/","r","/","1">>)
    /\ last.file_data.filename = Str(<<"g">>)
    /\ TagRow(2, None) \in db.rows
    /\ RowOf(1, last.file_data) \in db.rows
    /\ Cardinality(db.rows) = 3

\* C24: the manual backup list of the history page holds every entry of the
\* backup directory whose name starts with 'file_index_' and ends with '.db'
\* and no other entry, each once, in descending order of name, whatever git
\* did; an absent backup directory gives the empty list and no error
C24_ManualBackupList ==
    (last.op = "history" /\ last.status = 200 /\ last.listdir # "error") =>
        LET listed == last.manual_db_backups
        IN  /\ {listed[i] : i \in 1..Len(listed)} =
                   {f \in DOMAIN backups :
                      /\ Len(f) >= 11 /\ SubSeq(f, 1, 11) = <<"f","i","l","e","_","i","n","d","e","x","_">>
                      /\ Len(f) >= 3 /\ SubSeq(f, Len(f) - 2, Len(f)) = <<".","d","b">>}
            /\ \A i, j \in 1..Len(listed) : i < j => StrLess(listed[j], listed[i])
            /\ last.listdir = "missing" => listed = <<>> /\ last.flash = "none"

\* two manual backups were listed, newest name first, next to a commit
\* database backup that was not
C24_Witness ==
    /\ last.op = "history" /\ last.status = 200 /\ last.listdir = "ok"
    /\ last.manual_db_backups = <<BackupFilename(1), BackupFilename(0)>>
    /\ CommitDbName(Hash1) \in DOMAIN backups

\* C25: on download_file, serve_thumbnail and browse a request whose
\* resolved path lies outside the archive root is answered 403 whether or
\* not anything exists there, and 404 is answered only for a path at or
\* beneath the root
C25_ConfinementBeforeExistence ==
    last.op \in {"download_file", "browse", "serve_thumbnail"} =>
        /\ ~AtOrBeneathRoot(Resolve(last.path)) => last.status = 403
        /\ last.status = 404 => AtOrBeneathRoot(Resolve(last.path))

\* some non-empty entry of the years list does not denote an integer
YearsMalformed(years) ==
    years.t = "list" /\ \E i \in 1..Len(years.v) :
        Truthy(years.v[i]) /\ ~IntOf(years.v[i]).ok

\* C26: when a non-empty entry of years is not parseable as an integer, the
\* search gives what the same search without years gives (the whole year
\* clause is left out, the other filters apply); when no other filter is
\* active it returns the empty list without a query; and it raises nothing
\* as long as the database file is there
C26_BadYearDropsClause ==
    (Searched /\ YearsMalformed(last.years)) =>
        LET without == search_database(db, last.filename, None,
                                       last.file_types, last.keywords)
            others == \/ FilenameActive(last.filename)
                      \/ TypesActive(last.file_types)
                      \/ KeywordsActive(last.keywords)
        IN  /\ last.rows = without.rows /\ last.queries = without.queries
            /\ ~others => last.rows = <<>> /\ last.queries = 0
                              /\ last.raised = "none"
            /\ db.kind # "missing" => last.raised = "none"

\* a search by filename with the years '23' and 'x' returned a row of
\* another year as well
C26_Witness ==
    /\ Searched /\ last.raised = "none"
    /\ last.years = List(<<Str(<<"2","3">>), Str(<<"x">>)>>)
    /\ last.filename = Str(<<"a">>)
    /\ \E i \in 1..Len(last.rows) : last.rows[i].category_year = Num(24)
    /\ \E i \in 1..Len(last.rows) : last.rows[i].category_year = Num(23)

(***************************************************************************)
(* get_commit_details on the decorations git prints for a commit           *)
(***************************************************************************)
\* refs that can point at a commit; git accepts ')' and ',' in a tag name
RefPool ==
    {[kind |-> "head", name |-> <<"H","E","A","D"," ","-",">"," ","m">>],
     [kind |-> "branch", name |-> <<"o","/","m">>],
     [kind |-> "tag", name |-> <<"v","1",".","2",".","3">>],
     [kind |-> "tag", name |-> <<"1","0",".","0",".","4">>],
     [kind |-> "tag", name |-> <<"v","1",".","2">>],
     [kind |-> "tag", name |-> <<"x">>],
     [kind |-> "tag", name |-> <<"v","1",".","2",".","3",")">>],
     [kind |-> "tag", name |-> <<"v","2",".","0",".","0",",","x">>]}

\* refs on one commit
MaxRefs == 2

RefText(ref) == IF ref.kind = "tag" THEN <<"t","a","g",":"," ">> \o ref.name ELSE ref.name

RECURSIVE JoinRefs(_)
JoinRefs(refs) ==
    IF refs = <<>> THEN <<>>
    ELSE IF Len(refs) = 1 THEN RefText(refs[1])
    ELSE RefText(refs[1]) \o <<","," ">> \o JoinRefs(Tail(refs))

\* %d of git log: ' (ref, ref, ...)', or nothing for a commit without refs
Decorations(refs) ==
    IF refs = <<>> THEN <<>> ELSE <<" ","(">> \o JoinRefs(refs) \o <<")">>

\* one line of 'git log --pretty=format:%h|%H|%ad|%s|%an|%d'
GitLogLine(refs) == <<"a","1","¦","f","1","¦","d","2","¦","s","¦","n","¦">> \o Decorations(refs)

PendingCommits(refs, changelog) ==
    [op |-> "call get_commit_details", refs |-> refs, changelog |-> changelog]

\* get_commit_details on the log of one commit
GetCommitDetails(git) ==
    /\ last.op = "call get_commit_details"
    /\ LET out == get_commit_details(git, GitLogLine(last.refs), last.changelog)
       IN  last' = [op |-> "get_commit_details", refs |-> last.refs,
                    changelog |-> last.changelog, git |-> git,
                    raised |-> out.raised, commits |-> out.result]
    /\ UNCHANGED <<db, backups, clock, made, thumbs, conns, copying, md_files>>

InitCommits ==
    /\ db = Sqlite({})
    /\ backups = EmptyDir
    /\ clock = 0
    /\ made = EmptyDir
    /\ thumbs = EmptyDir
    /\ conns = NoConnections
    /\ copying = NotCopying
    /\ md_files = ProjectDir
    /\ \E refs \in UNION {[1..n -> RefPool] : n \in 0..MaxRefs},
          changelog \in ChangelogStates :
            last = PendingCommits(refs, changelog)

NextCommits == \E git \in GitOutcomes : GetCommitDetails(git)

SpecCommits == InitCommits /\ [][NextCommits]_vars

\* the names of the tags among the refs, in order
TagNames(refs) ==
    LET tags == SelectSeq(refs, LAMBDA ref : ref.kind = "tag")
    IN  [i \in 1..Len(tags) |-> tags[i].name]

\* C27: the commit's tags list holds the names of its tags and of no other
\* decoration; it has a version exactly when one of its tags fully matches
\* v?X.Y.Z, and the version is X.Y.Z of the first such tag; release notes
\* are there only with a version, and a changelog without the section gives
\* none
C27_ReleaseFromTags ==
    (last.op = "get_commit_details" /\ last.git = "ok") =>
        /\ Len(last.commits) = 1
        /\ LET commit == last.commits[1]
               names == TagNames(last.refs)
           IN  /\ commit.tags = names
               /\ commit.version # None <=>
                      \E i \in 1..Len(names) : VersionMatch(names[i]) # None
               /\ commit.version = FirstVersion(names)
               /\ commit.version = None => commit.release_notes = None
               /\ last.changelog # "section" => commit.release_notes = None

(***************************************************************************)
(* version_bumper.py: the next version, and the order of main's effects    *)
(***************************************************************************)
\* str(n) for n >= 0
RECURSIVE IntToStr(_)
IntToStr(n) ==
    IF n < 10 THEN <<Digits[n + 1]>>
    ELSE IntToStr(n \div 10) \o <<Digits[(n % 10) + 1]>>

\* f"{major}.{minor}.{patch}"
FormatVersion(major, minor, patch) ==
    IntToStr(major) \o <<".">> \o IntToStr(minor) \o <<".">> \o IntToStr(patch)

calculate_next_versionKeepPatch(current_version, bump_type) ==
    LET parts == Split(current_version, ".")
    IN  IF Len(parts) # 3 \/ \E i \in 1..Len(parts) : ~ParseInt(parts[i]).ok
        THEN [raised |-> "ValueError", result |-> <<>>]
        ELSE LET major == ParseInt(parts[1]).n
                 minor == ParseInt(parts[2]).n
                 patch == ParseInt(parts[3]).n
             IN  CASE bump_type = "major" ->
                        [raised |-> "none", result |-> FormatVersion(major + 1, 0, 0)]
                   [] bump_type = "minor" ->
                        [raised |-> "none",
                         result |-> FormatVersion(major, minor + 1, patch)]
                   [] bump_type = "patch" ->
                        [raised |-> "none",
                         result |-> FormatVersion(major, minor, patch + 1)]
                   [] OTHER -> [raised |-> "ValueError", result |-> <<>>]

\* calculate_next_version: unpacking other than three parts and int() of a
\* part that is no integer literal raise ValueError as well
calculate_next_version(current_version, bump_type) ==
    LET parts == Split(current_version, ".")
    IN  IF Len(parts) # 3 \/ \E i \in 1..Len(parts) : ~ParseInt(parts[i]).ok
        THEN [raised |-> "ValueError", result |-> <<>>]
        ELSE LET major == ParseInt(parts[1]).n
                 minor == ParseInt(parts[2]).n
                 patch == ParseInt(parts[3]).n
             IN  CASE bump_type = "major" ->
                        [raised |-> "none", result |-> FormatVersion(major + 1, 0, 0)]
                   [] bump_type = "minor" ->
                        [raised |-> "none", result |-> FormatVersion(major, minor + 1, 0)]
                   [] bump_type = "patch" ->
                        [raised |-> "none",
                         result |-> FormatVersion(major, minor, patch + 1)]
                   [] OTHER -> [raised |-> "ValueError", result |-> <<>>]

\* re.match(r"^\d+\.\d+\.\d+$", version)
IsVersion(version) ==
    LET parts == Split(version, ".")
    IN  /\ Len(parts) = 3
        /\ \A i \in 1..3 : parts[i] # <<>> /\ \A k \in 1..Len(parts[i]) : IsDigit(parts[i][k])

\* numbers a part of the current version can be
VersionParts == {0, 9, 12}

BumpTypes == {"major", "minor", "patch"}

\* what the VERSION file can hold: a version, something else, or it is absent
VersionFiles ==
    {Str(FormatVersion(x, y, z)) : x \in VersionParts, y \in VersionParts,
                                    z \in VersionParts}
        \cup {Str(<<"1",".","0","2",".","3">>), Str(<<"1",".","2">>), None}

PendingNextVersion(numbers, bump_type) ==
    [op |-> "call calculate_next_version", numbers |-> numbers,
     bump_type |-> bump_type]

PendingMain(version_file, bump_type) ==
    [op |-> "call main", version_file |-> version_file, bump_type |-> bump_type]

\* a call of calculate_next_version on the text of three numbers
CalculateNextVersion ==
    /\ last.op = "call calculate_next_version"
    /\ LET out == calculate_next_version(
                      FormatVersion(last.numbers[1], last.numbers[2], last.numbers[3]),
                      last.bump_type)
       IN  last' = [op |-> "calculate_next_version", numbers |-> last.numbers,
                    bump_type |-> last.bump_type, raised |-> out.raised,
                    result |-> out.result]
    /\ UNCHANGED <<db, backups, clock, made, thumbs, conns, copying, md_files>>

\* main up to the updates: get_current_version, calculate_next_version,
\* get_latest_tag, get_commits_since_tag; run_command exits the process when
\* git is missing or a checked command fails (git log is run unchecked)
MainGather(git_fetch, git_tag, git_log) ==
    /\ last.op = "call main"
    /\ LET readable == last.version_file # None /\ IsVersion(Strip(last.version_file.v))
           next == IF readable
                   THEN calculate_next_version(Strip(last.version_file.v),
                                               last.bump_type).result
                   ELSE <<>>
           exits == \/ ~readable
                    \/ git_fetch # "ok" \/ git_tag # "ok"
                    \/ git_log = "FileNotFoundError"
       IN  last' = [op |-> "main", version_file |-> last.version_file,
                    bump_type |-> last.bump_type, new_version |-> next,
                    pc |-> IF exits THEN "exited" ELSE "update",
                    failed |-> IF ~readable THEN "get_current_version"
                               ELSE IF git_fetch # "ok" \/ git_tag # "ok"
                               THEN "get_latest_tag"
                               ELSE IF git_log = "FileNotFoundError"
                               THEN "get_commits_since_tag" ELSE "none",
                    effects |-> <<>>]
    /\ UNCHANGED <<db, backups, clock, made, thumbs, conns, copying, md_files>>

Effect(step, text) == [step |-> step, text |-> text]

\* update_version_file, then update_changelog: an OSError of the first is
\* not caught, any error of the second but a missing file exits
MainUpdate(version_io, changelog_io) ==
    /\ last.op = "main" /\ last.pc = "update"
    /\ last' = [last EXCEPT
                  !.effects = IF ~version_io THEN @
                              ELSE IF ~changelog_io
                              THEN Append(@, Effect("write VERSION", last.new_version))
                              ELSE @ \o <<Effect("write VERSION", last.new_version),
                                          Effect("write CHANGELOG.md", last.new_version)>>,
                  !.failed = IF ~version_io THEN "write VERSION"
                             ELSE IF ~changelog_io THEN "write CHANGELOG.md" ELSE @,
                  !.pc = IF version_io /\ changelog_io THEN "git add" ELSE "exited"]
    /\ UNCHANGED <<db, backups, clock, made, thumbs, conns, copying, md_files>>

\* the text a git step of main is about
GitText(step, new_version) ==
    CASE step = "git add" -> <<"V","E","R","S","I","O","N"," ","C","H","A","N","G","E","L","O","G",".","m","d">>
      [] step = "git commit" -> <<"c","h","o","r","e",":"," ","B","u","m","p"," ","v","e","r","s","i","o","n"," ","t","o"," ">> \o new_version
      [] step = "git tag" -> <<"v">> \o new_version

AfterStep(step) ==
    CASE step = "git add" -> "git commit"
      [] step = "git commit" -> "git tag"
      [] step = "git tag" -> "done"

\* run_command of git add, git commit -m and git tag, one after the other
MainGit(git) ==
    /\ last.op = "main" /\ last.pc \in {"git add", "git commit", "git tag"}
    /\ last' = [last EXCEPT
                  !.effects = IF git = "ok"
                              THEN Append(@, Effect(last.pc,
                                                    GitText(last.pc, last.new_version)))
                              ELSE @,
                  !.failed = IF git = "ok" THEN @ ELSE last.pc,
                  !.pc = IF git = "ok" THEN AfterStep(last.pc) ELSE "exited"]
    /\ UNCHANGED <<db, backups, clock, made, thumbs, conns, copying, md_files>>

InitBump ==
    /\ db = Sqlite({})
    /\ backups = EmptyDir
    /\ clock = 0
    /\ made = EmptyDir
    /\ thumbs = EmptyDir
    /\ conns = NoConnections
    /\ copying = NotCopying
    /\ md_files = ProjectDir
    /\ \/ \E x \in VersionParts, y \in VersionParts, z \in VersionParts,
             bump_type \in BumpTypes \cup {"build"} :
               last = PendingNextVersion(<<x, y, z>>, bump_type)
       \/ \E version_file \in VersionFiles, bump_type \in BumpTypes :
               last = PendingMain(version_file, bump_type)

NextBump ==
    \/ CalculateNextVersion
    \/ \E git_fetch \in GitOutcomes, git_tag \in GitOutcomes, git_log \in GitOutcomes :
          MainGather(git_fetch, git_tag, git_log)
    \/ \E version_io \in BOOLEAN, changelog_io \in BOOLEAN :
          MainUpdate(version_io, changelog_io)
    \/ \E git \in GitOutcomes : MainGit(git)

SpecBump == InitBump /\ [][NextBump]_vars

\* the version the claim gives for a bump of X.Y.Z
ClaimedNext(numbers, bump_type) ==
    CASE bump_type = "major" -> <<numbers[1] + 1, 0, 0>>
      [] bump_type = "minor" -> <<numbers[1], numbers[2] + 1, 0>>
      [] bump_type = "patch" -> <<numbers[1], numbers[2], numbers[3] + 1>>

\* the effects of a complete run of main, in order
FullRun(new_version) ==
    <<Effect("write VERSION", new_version),
      Effect("write CHANGELOG.md", new_version),
      Effect("git add", <<"V","E","R","S","I","O","N"," ","C","H","A","N","G","E","L","O","G",".","m","d">>),
      Effect("git commit", <<"c","h","o","r","e",":"," ","B","u","m","p"," ","v","e","r","s","i","o","n"," ","t","o"," ">> \o new_version),
      Effect("git tag", <<"v">> \o new_version)>>

\* C28: calculate_next_version gives (X+1).0.0, X.(Y+1).0 or X.Y.(Z+1) for
\* a major, minor or patch bump and raises ValueError for another bump
\* type; the effects of main are at every moment the first so many of:
\* VERSION written, changelog written, both staged, the commit 'chore: Bump
\* version to <next>', the tag 'v<next>'; and a step that failed, and the
\* steps after it, have had no effect
C28_NextVersionAndOrder ==
    /\ last.op = "calculate_next_version" =>
          IF last.bump_type \in BumpTypes
          THEN LET next == ClaimedNext(last.numbers, last.bump_type)
               IN  /\ last.raised = "none"
                   /\ last.result = FormatVersion(next[1], next[2], next[3])
          ELSE last.raised = "ValueError"
    /\ last.op = "main" =>
          /\ Len(last.effects) <= 5
          /\ last.effects = SubSeq(FullRun(last.new_version), 1, Len(last.effects))
          /\ last.pc = "done" <=> Len(last.effects) = 5
          /\ last.failed # "none" =>
                /\ last.pc = "exited"
                /\ \A i \in 1..Len(last.effects) : last.effects[i].step # last.failed

\* main ran to the end for a minor bump of 9.9.12
C28_Witness ==
    /\ last.op = "main" /\ last.pc = "done"
    /\ last.version_file = Str(<<"9",".","9",".","1","2">>) /\ last.bump_type = "minor"
    /\ last.effects[4] = Effect("git commit", <<"c","h","o","r","e",":"," ","B","u","m","p"," ","v","e","r","s","i","o","n"," ","t","o"," ","9",".","1","0",".","0">>)
    /\ last.effects[5] = Effect("git tag", <<"v","9",".","1","0",".","0">>)

\* C29: a thumbnail served for a relative path was generated from the file
\* at that path, whatever thumbnail requests came before: no other path
\* shares its cache entry
C29_ThumbnailOfRequestedFile ==
    (last.op = "serve_thumbnail" /\ last.status = 200) =>
        last.body = Resolve(last.path)

\* the record get_commit_details builds for a commit of the given short hash
RecordOfCommit(short_hash) ==
    CommitRecord(<<short_hash, <<"f">>, <<"d">>, <<"s">>, <<"n">>, <<>>>>, "missing")

\* C30: download_commit_package finds both artifacts of a commit (it does
\* not answer 404) exactly when get_commit_details reports has_db_backup
\* and has_zip_backup for that commit, in every state of the backup
\* directory
C30_HistoryAgreesWithPackage ==
    last.op = "download_commit_package" =>
        (last.status # 404 <=>
            /\ RecordOfCommit(last.commit_hash).has_db_backup
            /\ RecordOfCommit(last.commit_hash).has_zip_backup)

====
